---- MODULE Spec2Model ----
(***************************************************************************)
(* Repost pipeline of reddit-to-twitter: the two reposter scripts          *)
(* (social_media_to_twitter.py and reddit_to_twitter.py), the ledger file  *)
(* posted_videos.json they share, and the process that runs them.          *)
(*                                                                         *)
(* One process at a time runs the deployed script.  Its position in the    *)
(* code is pc; every external call (download, media upload, status lookup, *)
(* post creation) and every file operation of the ledger save is one step, *)
(* and its outcome is chosen by the environment.  The last external call   *)
(* is kept in ext.                                                         *)
(*                                                                         *)
(* The deployment (config) is one of a few small config.json files.  The   *)
(* text of a post is studied on its own, in TextSpec, over a range of      *)
(* titles, bodies and links.                                               *)
(***************************************************************************)
EXTENDS Integers, Sequences, FiniteSets, TLC

\* Number of runs of the pipeline (reposter.run) over the life of the ledger.
MaxRuns == 2

\* ------------------------------------------------------------------------
\* Configuration snapshot and what the sources yield
\* ------------------------------------------------------------------------

VARIABLE config    \* which config.json the deployment has

\* The deployments considered: one subreddit and one channel; two subreddits
\* and no channel; no subreddit and two channels; one subreddit with two
\* videos in its listing.
Configs == {"one_each", "two_forums", "two_channels", "busy_forum"}

\* Keys of self.twitter_clients, in the order the dict iterates them.
Accounts == <<"acctA", "acctB">>

\* config["subreddits"]
Subreddits ==
  CASE config = "one_each"     -> <<"sub1">>
    [] config = "two_forums"   -> <<"sub1", "sub2">>
    [] config = "two_channels" -> << >>
    [] config = "busy_forum"   -> <<"sub3">>

\* config["telegram"]["channels"], by their "name"
Channels ==
  CASE config = "one_each"     -> <<"chan1">>
    [] config = "two_forums"   -> << >>
    [] config = "two_channels" -> <<"chan1", "chan2">>
    [] config = "busy_forum"   -> << >>

\* The two entry points that can own the ledger file.
Scripts == {"social", "reddit"}

\* The scripts considered with deployment c: reddit_to_twitter.py, which
\* reads the subreddits only, is considered with one subreddit.
Deployed(c) == IF c = "one_each" THEN Scripts ELSE {"social"}

\* Text that the code only searches and rewrites (URLs, domains) is a
\* sequence of parts; a part is found in it when it is one of them.
Contains(text, part) == \E n \in 1..Len(text) : text[n] = part

\* text.startswith(part)
StartsWith(text, part) == Len(text) > 0 /\ text[1] = part

\* text.replace(old, new): every occurrence is replaced.
Replace(text, old, new) ==
  [n \in 1..Len(text) |-> IF text[n] = old THEN new ELSE text[n]]

\* post.media of a post that has none (None); video_url when no rule gave one.
NoMedia == << >>

\* post.media['reddit_video']['fallback_url'] of the video hosted for post i.
FallbackUrl(i) == <<"https://", "v.redd.it", "/", i, "/DASH_720", ".mp4">>

\* A submission whose video the forum hosts (is_video, with its metadata) when
\* v, and a link to an article otherwise.
Post(s, i, v) ==
  [kind |-> "forum", src |-> s, id |-> i, is_video |-> v,
   domain |-> IF v THEN <<"v.redd.it">> ELSE <<"example.com">>,
   url |-> IF v THEN <<"https://", "v.redd.it", "/", i>>
                ELSE <<"https://", "example.com", "/", i>>,
   media |-> IF v THEN FallbackUrl(i) ELSE NoMedia]

\* A submission that links to url u on domain d.
Link(s, i, d, u) ==
  [kind |-> "forum", src |-> s, id |-> i, is_video |-> FALSE,
   domain |-> d, url |-> u, media |-> NoMedia]

\* message.media of a message without attachment (None).
NoAttachment == <<"none">>

\* A MessageMediaDocument whose document.attributes hold the attributes a.
Document(a) == <<"MessageMediaDocument">> \o a

\* A MessageMediaWebPage whose webpage has a document with the attributes a.
WebPage(a) == <<"MessageMediaWebPage", "document">> \o a

\* A DocumentAttributeVideo, which has round_message and supports_streaming.
VideoAttributes == <<"DocumentAttributeFilename", "DocumentAttributeVideo">>

\* The attributes of a file that is not a video.
FileAttributes == <<"DocumentAttributeFilename">>

\* A channel message with attachment m.
Attachment(c, i, m) ==
  [kind |-> "channel", src |-> c, id |-> i, is_video |-> FALSE,
   domain |-> << >>, url |-> << >>, media |-> m]

\* A channel message that carries a video when v, and no media otherwise.
Message(c, i, v) ==
  Attachment(c, i, IF v THEN Document(VideoAttributes) ELSE NoAttachment)

NoItem == [kind |-> "none", src |-> "", id |-> "", is_video |-> FALSE,
           domain |-> << >>, url |-> << >>, media |-> NoMedia]

ImgurGifv(i) == <<"https://", "i.", "imgur.com", "/", i, ".gifv">>

\* What subreddit.hot(limit) / telegram.get_messages(limit) yield.  Post ids
\* and message ids are unique within their source: sub2 has a post with the
\* id of a post of sub1.  The second post of sub3 links to an animation on
\* the image host; the second message of chan2 carries a file that is not a
\* video.
Listing(src) ==
  CASE src = "sub1"  -> << Post("sub1", "p1", TRUE), Post("sub1", "p2", FALSE) >>
    [] src = "sub2"  -> << Post("sub2", "p1", TRUE) >>
    [] src = "sub3"  -> << Post("sub3", "p3", TRUE),
                           Link("sub3", "p4", <<"i.", "imgur.com">>,
                                ImgurGifv("p4")) >>
    [] src = "chan1" -> << Message("chan1", "1", TRUE), Message("chan1", "2", FALSE) >>
    [] src = "chan2" -> << Message("chan2", "1", TRUE),
                           Attachment("chan2", "2", Document(FileAttributes)) >>
    [] OTHER         -> << >>

Range(s) == { s[i] : i \in 1..Len(s) }

AllItems == UNION { Range(Listing(s)) : s \in Range(Subreddits \o Channels) }

AcctSet == Range(Accounts)

\* Mutation of Sources: the channels are drained before the subreddits.
Sources_channelsFirst(s) ==
  IF s = "social" THEN Channels \o Subreddits ELSE Subreddits

\* run() of SocialMediaToTwitter drains the subreddits, then the channels;
\* run() of RedditToTwitter drains the subreddits only.
Sources(s) == IF s = "social" THEN Subreddits \o Channels ELSE Subreddits

IsForum(idx) == idx <= Len(Subreddits)

\* The key under which an item is looked up and recorded.
Key(it) == IF it.kind = "forum" THEN it.id
           ELSE "telegram_" \o it.src \o "_" \o it.id

\* ------------------------------------------------------------------------
\* Classification of an item and resolution of its video URL
\* ------------------------------------------------------------------------

\* process_subreddit: ['gfycat.com', 'imgur.com', 'v.redd.it']
VideoDomains == {"gfycat.com", "imgur.com", "v.redd.it"}

\* Mutation of IsVideo: only the forum's own flag counts.
IsVideo_flagOnly(p) == p.is_video

\* process_subreddit: `is_video = post.is_video or any(domain in post.url
\* for domain in [...])`
IsVideo(p) == p.is_video \/ \E d \in VideoDomains : Contains(p.url, d)

\* The attributes for which hasattr(attr, 'round_message') or
\* hasattr(attr, 'supports_streaming') holds.
VideoCapable == {"DocumentAttributeVideo"}

\* Mutation of MessageIsVideo: every message that has media is a video.
MessageIsVideo_anyMedia(m) == m.media # NoAttachment

\* download_telegram_video: is_video, from the attributes of the document of
\* a MessageMediaDocument or of the web page of a MessageMediaWebPage.
MessageIsVideo(m) ==
  /\ m.media # NoAttachment
  /\ \/ StartsWith(m.media, "MessageMediaDocument")
     \/ StartsWith(m.media, "MessageMediaWebPage") /\ Contains(m.media, "document")
  /\ \E a \in VideoCapable : Contains(m.media, a)

\* The item is one its loop goes on to fetch: a forum item is classified in
\* process_subreddit, a channel message in download_telegram_video.
VideoBearing(it) ==
  IF it.kind = "forum" THEN IsVideo(it) ELSE MessageIsVideo(it)

\* video_url when no rule has assigned it (None).
NotFound == << >>

\* download_video: ('youtube.com', 'youtu.be', 'vimeo.com')
ExternalVideoDomains == {"youtube.com", "youtu.be", "vimeo.com"}

\* data['gfyItem']['mp4Url'] for the clip the URL names.
Mp4Url(u) == <<"https://", "giant.", "gfycat.com", "/", u[Len(u)], ".mp4">>

\* download_video calls the gfycat API for this post.
LooksUp(p) ==
  /\ ~p.is_video
  /\ ~\E d \in ExternalVideoDomains : StartsWith(p.domain, d)
  /\ Contains(p.url, "gfycat.com")

\* What the gfycat API call can do, when it is made.
LookupResults(p) ==
  IF LooksUp(p) THEN {"200", "404", "raises"} ELSE {"not called"}

\* Mutation of VideoUrl: the image-host URL is used as it is.
VideoUrl_noRewrite(p, lookup) ==
  IF p.is_video
  THEN IF p.media # NoMedia THEN p.media ELSE NotFound
  ELSE IF \E d \in ExternalVideoDomains : StartsWith(p.domain, d)
  THEN NotFound
  ELSE IF Contains(p.url, "gfycat.com")
  THEN IF lookup = "200" THEN Mp4Url(p.url) ELSE NotFound
  ELSE IF /\ Contains(p.url, "imgur.com")
          /\ Contains(p.url, ".gifv") \/ Contains(p.url, ".mp4")
  THEN p.url
  ELSE NotFound

\* download_video, the if/elif chain that assigns video_url.
VideoUrl(p, lookup) ==
  IF p.is_video
  THEN IF p.media # NoMedia THEN p.media ELSE NotFound
  ELSE IF \E d \in ExternalVideoDomains : StartsWith(p.domain, d)
  THEN NotFound
  ELSE IF Contains(p.url, "gfycat.com")
  THEN IF lookup = "200" THEN Mp4Url(p.url) ELSE NotFound
  ELSE IF /\ Contains(p.url, "imgur.com")
          /\ Contains(p.url, ".gifv") \/ Contains(p.url, ".mp4")
  THEN Replace(p.url, ".gifv", ".mp4")
  ELSE NotFound

\* download_video has not been called.
NoDownload == [lookup |-> "not called", video_url |-> NotFound,
               http |-> "not called", returned |-> "not called"]

\* download_video(p) with the API answering `lookup` and the download of the
\* video answering `http`: the URL it resolved, whether it requested it, and
\* what it returned ("ok" for the path of the file, "fail" for None).
Download(p, lookup, http) ==
  LET url == IF lookup = "raises" THEN NotFound ELSE VideoUrl(p, lookup)
      status == IF url = NotFound THEN "not called" ELSE http
  IN  [lookup |-> lookup, video_url |-> url, http |-> status,
       returned |-> IF status = "200" THEN "ok" ELSE "fail"]

\* Every way download_video(p) can go.
DownloadVideoOutcomes(p) ==
  { Download(p, lookup, http) :
      lookup \in LookupResults(p), http \in {"200", "404", "raises"} }

\* ------------------------------------------------------------------------
\* Ledger
\* ------------------------------------------------------------------------

EmptyLedger == [k \in {} |-> 0]

\* Mutation of Entry: the entry lists no account.
Entry_noAccounts(it, at, to) ==
  [item |-> it.id, posted_at |-> at, posted_to |-> << >>]

Entry(it, at, to) == [item |-> it.id, posted_at |-> at, posted_to |-> to]

\* self.posted_videos[key] = {...}
Upsert(L, k, e) == [x \in DOMAIN L \cup {k} |-> IF x = k THEN e ELSE L[x]]

NoFile == [exists |-> FALSE, ok |-> FALSE, data |-> EmptyLedger]

\* open(..., 'w') has truncated the file and json.dump has not completed.
TruncatedFile == [exists |-> TRUE, ok |-> FALSE, data |-> EmptyLedger]

ValidFile(L) == [exists |-> TRUE, ok |-> TRUE, data |-> L]

\* _load_posted_videos: the parsed document, or {} when the file is missing
\* or when reading or parsing it raises.
LoadPostedVideos(d, readOk) ==
  IF d.exists /\ d.ok /\ readOk THEN d.data ELSE EmptyLedger

\* Mutation of AlreadyPosted: nothing is ever found in the ledger.
AlreadyPosted_never(L, k) == FALSE

\* the test `post.id in self.posted_videos`
AlreadyPosted(L, k) == k \in DOMAIN L

\* Mutation of DownloadFailed: a None path is not noticed.
DownloadFailed_never(res) == FALSE

\* the test `if not video_path: continue`
DownloadFailed(res) == res # "ok"

\* Mutation of AppendIfPosted: the account is listed whatever publish returned.
AppendIfPosted_always(acc, a, returned) == Append(acc, a)

\* `if self.post_to_twitter(...): posted_accounts.append(account_name)`
AppendIfPosted(acc, a, returned) == IF returned THEN Append(acc, a) ELSE acc

\* Mutation of ShouldRecord: the item is recorded even with no success.
ShouldRecord_always(acc) == TRUE

\* the test `if posted_accounts:`
ShouldRecord(acc) == acc # << >>

\* ------------------------------------------------------------------------
\* Destination platform: processing state of an uploaded media
\* ------------------------------------------------------------------------

\* "none" is a status whose processing_info is empty.
MediaStates == {"none", "pending", "in_progress", "succeeded", "failed"}

Processing == {"pending", "in_progress"}

\* How the platform's processing may have moved while the client slept.
Advance(m) ==
  CASE m = "pending"     -> {"pending", "in_progress", "succeeded", "failed"}
    [] m = "in_progress" -> {"in_progress", "succeeded", "failed"}
    [] OTHER             -> {m}

\* the loop condition of the status poll
StillProcessing(seen) == seen \in Processing

\* the test after the loop: processing_info['state'] == 'failed'
ProcessingFailed(seen) == seen = "failed"

\* Only SocialMediaToTwitter.post_to_twitter looks the status up.
PollsStatus(s, forum) == s = "social" /\ forum

\* What the publish function returns when create_tweet returned `resp`.
\* post_to_twitter of social_media_to_twitter.py requires response.data.
CreateReturns(s, forum, resp) ==
  IF s = "social" /\ forum THEN resp = "ok" ELSE resp \in {"ok", "nodata"}

\* ------------------------------------------------------------------------
\* Text of a post
\* ------------------------------------------------------------------------

\* A text is a sequence of segments, each a run of `len` characters that came
\* from one part of the composition: "title", "body", "dots" (the "..."),
\* "sep" (the "\n\n"), "source" (the "Source: ..." attribution).
Str(p, n) == IF n = 0 THEN << >> ELSE << [part |-> p, len |-> n] >>

RECURSIVE TextLen(_)
TextLen(t) == IF t = << >> THEN 0 ELSE Head(t).len + TextLen(Tail(t))

\* The slice t[:n].
RECURSIVE Take(_, _)
Take(t, n) ==
  IF t = << >> \/ n <= 0 THEN << >>
  ELSE IF Head(t).len <= n
       THEN << Head(t) >> \o Take(Tail(t), n - Head(t).len)
       ELSE Str(Head(t).part, n)

\* text=tweet_text[:280]
TweetLimit == 280

\* max_selftext_length
MaxSelftextLength == 150

\* the bound on a channel message's text: `if len(tweet_text) > 250`
MaxMessageLength == 250

\* len("...")
DotsLen == 3

\* len("\n\n")
SepLen == 2

\* len("Source: https://reddit.com")
RedditSourceLen == 26

\* len("Source: Telegram channel ")
TelegramSourceLen == 25

\* len("Video from ")
VideoFromLen == 11

\* A selftext of `core` characters between `pad` characters of white space.
Selftext(pad, core) == [pad |-> pad, core |-> core]

\* Mutation of Excerpt: the stripped body is not cut.
Excerpt_uncut(st) == Str("body", st.core)

\* selftext.strip(), then the cut to max_selftext_length with "..."
Excerpt(st) ==
  IF st.core > MaxSelftextLength
  THEN Str("body", MaxSelftextLength) \o Str("dots", DotsLen)
  ELSE Str("body", st.core)

\* f"Source: https://reddit.com{post.permalink}"
RedditSource(permalink) == Str("source", RedditSourceLen + permalink)

\* f"Source: Telegram channel {channel_name}"
TelegramSource(name) == Str("source", TelegramSourceLen + name)

\* tweet_text of SocialMediaToTwitter.post_to_twitter before the slice.
PostText(title, st, include, permalink) ==
  Str("title", title)
    \o (IF include /\ st.pad + st.core > 0
        THEN Str("sep", SepLen) \o Excerpt(st) ELSE << >>)
    \o Str("sep", SepLen) \o RedditSource(permalink)

\* tweet_text of RedditToTwitter.post_to_twitter before the slice.
RedditPostText(title, permalink) ==
  Str("title", title) \o Str("sep", SepLen) \o RedditSource(permalink)

\* tweet_text of post_telegram_to_twitter before the slice.
TelegramText(text, name) ==
  (IF text = 0 THEN Str("title", VideoFromLen + name)
   ELSE IF text > MaxMessageLength
   THEN Str("title", MaxMessageLength) \o Str("dots", DotsLen)
   ELSE Str("title", text))
    \o Str("sep", SepLen) \o TelegramSource(name)

\* The lengths of the titles, bodies, permalinks, message texts and channel
\* names considered.
TitleLens == {1, 100, 250, 300}

SelftextLens == {0, 100, 150, 151, 400}

PadLens == {0, 1}

PermalinkLens == {30, 60}

MessageLens == {0, 100, 250, 251, 400}

NameLens == {5, 20}

\* What a publish is given to make the text from.
TweetInputs ==
  [title : TitleLens, selftext : [pad : PadLens, core : SelftextLens],
   include_text_content : BOOLEAN, permalink : PermalinkLens,
   text : MessageLens, channel_name : NameLens]

\* The pipeline model does not look at the texts.
NoPost == [title |-> 0, selftext |-> Selftext(0, 0),
           include_text_content |-> FALSE, permalink |-> 0,
           text |-> 0, channel_name |-> 0]

\* No text has been composed.
NoTweet == [by |-> "none", tweet_text |-> << >>, sent |-> << >>]

\* Function `by` composed tweet_text t and passed its slice to create_tweet.
Tweet(by, t) == [by |-> by, tweet_text |-> t, sent |-> Take(t, TweetLimit)]

VARIABLES
  pc,             \* position of the process in the code; "down": no process
  script,         \* which script the process runs
  run,            \* number of runs started so far (the clock of posted_at)
  srcIdx,         \* index of the source being drained
  itemIdx,        \* index of the item of that source being processed
  acctIdx,        \* index of the destination account in the posting loop
  posted_accounts,\* the local list of that name
  posted_videos,  \* self.posted_videos
  disk,           \* posted_videos.json
  tgConnected,    \* self.telegram.is_connected()
  tgAuthorized,   \* whether the channel session is authorized
  mediaState,     \* platform-side state of the media of the publish in progress
  lastSeen,       \* state returned by the latest status lookup, or "unseen"
  ext,            \* the external call made by the last step, with its outcome
  posted,         \* the <<item, account>> pairs for which a post was created
  recorded,       \* the items for which an entry was ever recorded
  attempts,       \* publish invocations for the current item, per account
  results,        \* what publish returned for the current item, per account
  dlResult,       \* outcome of the fetch of the current item
  runStart,       \* self.posted_videos when the current run started
  tgReturn,       \* what the process_telegram_channel that just ended returned
  calledSincePace,\* a fetch or publish call was made in this source since the
                  \* source was entered or the pacing delay was last taken
  stats,          \* the counters of process_subreddit
  tally,          \* what happened to the items of the forum source so far
  post,           \* the title, body, permalink, ... a text is composed from
  tweet,          \* the text composed from post and passed to create_tweet
  cli,            \* the invocation of main(): its arguments, how far it got
                  \* and the exit code it returned
  submission,     \* the post a classification and download_video are applied to
  download,       \* what download_video did with submission
  gui,            \* gui.py: its globals, its request threads, its children
  pair            \* process_subreddit of either script, run on the same inputs

vars == << post, tweet, cli, submission, download, gui, pair, recorded, tgReturn, calledSincePace, stats, tally, config, pc, script, run, srcIdx, itemIdx, acctIdx, posted_accounts,
           posted_videos, disk, tgConnected, tgAuthorized, mediaState,
           lastSeen, ext, posted, attempts, results, dlResult, runStart >>

\* The arguments of main(): --run-once, --telegram-code, --setup.
Args(once, code, setup) ==
  [run_once |-> once, telegram_code |-> code, setup |-> setup]

\* main() was invoked with arguments a and has not constructed the reposter.
Invocation(a) == [args |-> a, init |-> "pending", returned |-> FALSE, code |-> 0]

\* The entry point is not followed: the process is started and stopped from
\* outside.
NoInvocation == Invocation(Args(FALSE, FALSE, FALSE))

\* The threads on which gui.py serves its requests (app.run serves each
\* request on a thread of its own).
Handlers == {"h1", "h2"}

\* The child processes subprocess.Popen can create.
Children == {"c1", "c2"}

\* The child the next Popen creates.
NewChild(started) == IF "c1" \in started THEN "c2" ELSE "c1"

\* What /run and /run-oauth start: SCRIPT_PATH, OAUTH_HELPER_PATH.
Commands == {"script", "oauth"}

\* A request thread between two requests.
NoRequest == [pc |-> "idle", cmd |-> "none", child |-> "None"]

\* read_output was not started for the child.
NoReader == [pc |-> "none", reads |-> "None", waits |-> "None"]

\* gui.py after import: process = None, is_running = False, no child.
NoGui == [is_running |-> FALSE, process |-> "None",
          started |-> {}, alive |-> {},
          kind |-> [c \in Children |-> "none"],
          handler |-> [h \in Handlers |-> NoRequest],
          reader |-> [c \in Children |-> NoReader]]

\* process_subreddit about to take the first post of the listing, with
\* self.posted_videos = L and no fetch or publish attempted yet.
Entered(L) == [idx |-> 1, posted_videos |-> L, file |-> L, calls |-> << >>]

\* process_subreddit of RedditToTwitter and of SocialMediaToTwitter, each
\* entered with the ledger L for the same listing, where download_video
\* succeeds for the posts of `fetched` and post_to_twitter for the
\* <<post, account>> pairs of `published`.
Pair(L, posts, fetched, published) ==
  [posts |-> posts, fetched |-> fetched, published |-> published,
   reddit |-> Entered(L), social |-> Entered(L)]

\* Neither process_subreddit is followed.
NoPair == Pair(EmptyLedger, << >>, {}, {})

\* No external call was made by the last step.
NoCall == [op |-> "none", item |-> NoItem, acct |-> "", media |-> "none",
           seen |-> "unseen", res |-> ""]

\* Call o about item it for account a; media is the platform-side state of the
\* media at the time of the call, seen what the latest status lookup of this
\* publish had returned, res the outcome of the call.
Call(o, it, a, m, r) == [op |-> o, item |-> it, acct |-> a, media |-> m,
                         seen |-> lastSeen, res |-> r]

NoAttempts == [a \in AcctSet |-> 0]

NoResults == [a \in AcctSet |-> "none"]

\* No process_telegram_channel has just returned.
NotReturned == [value |-> "no call"]

\* The value of a bare `return` and of falling off the end of the function.
PyNone == [value |-> "None"]

\* posts_processed = 0, videos_found = 0, videos_downloaded = 0,
\* videos_posted = 0
ZeroStats == [posts_processed |-> 0, videos_found |-> 0,
              videos_downloaded |-> 0, videos_posted |-> 0]

\* No item of the source has been seen: none yielded, none classified as
\* video, none fetched, none published.
ZeroTally == [seen |-> 0, video |-> 0, fetched |-> 0, published |-> 0]

CurSource == Sources(script)[srcIdx]

\* Only process_subreddit of social_media_to_twitter.py keeps counters.
Counting == script = "social" /\ IsForum(srcIdx)

\* `counter += 1` for the counters of the set fs.
Incremented(st, fs) ==
  IF Counting
  THEN [f \in DOMAIN st |-> IF f \in fs THEN st[f] + 1 ELSE st[f]]
  ELSE st

KeepCounts == UNCHANGED << stats, tally >>

\* process_telegram_channel, the for loop over the messages is exhausted:
\* the function falls off its end.
ReturnOnCompletion == PyNone

\* process_telegram_channel, `except Exception as e: logger.error(...)`:
\* the function falls off its end.
ReturnOnError == PyNone

\* process_telegram_channel, the bare `return` after send_code_request and
\* the two warnings.
ReturnOnAuthRequired == PyNone

CurItem == Listing(CurSource)[itemIdx]

CurAcct == Accounts[acctIdx]

\* Positions at which an item is being fetched, published or recorded.
MidItemPcs == {"download", "upload", "poll_sleep", "lookup", "create",
               "record", "save_open", "save_write", "pace"}

PublishPcs == {"upload", "poll_sleep", "lookup", "create"}

\* The state before any process has started, texts apart.
ProcessInit ==
  /\ config \in Configs
  /\ pc = "down"
  /\ script \in Deployed(config)
  /\ run = 0
  /\ srcIdx = 0
  /\ itemIdx = 0
  /\ acctIdx = 0
  /\ posted_accounts = << >>
  /\ posted_videos = EmptyLedger
  /\ disk = NoFile
  /\ tgConnected = FALSE
  /\ tgAuthorized = FALSE
  /\ mediaState = "none"
  /\ lastSeen = "unseen"
  /\ ext = NoCall
  /\ posted = {}
  /\ recorded = {}
  /\ attempts = NoAttempts
  /\ results = NoResults
  /\ dlResult = "none"
  /\ runStart = EmptyLedger
  /\ tgReturn = NotReturned
  /\ calledSincePace = FALSE
  /\ stats = ZeroStats
  /\ tally = ZeroTally

Init ==
  /\ ProcessInit
  /\ post = NoPost
  /\ tweet = NoTweet
  /\ cli = NoInvocation
  /\ submission = NoItem
  /\ download = NoDownload
  /\ gui = NoGui
  /\ pair = NoPair

\* Variables that describe the item in progress, cleared when it is left.
ClearItem ==
  /\ acctIdx' = 0
  /\ posted_accounts' = << >>
  /\ mediaState' = "none"
  /\ lastSeen' = "unseen"
  /\ attempts' = NoAttempts
  /\ results' = NoResults

KeepItem == UNCHANGED << acctIdx, posted_accounts, mediaState, lastSeen,
                         attempts, results >>

KeepProcess == UNCHANGED << config, script, run, tgAuthorized, runStart,
                            post, tweet, cli, submission, download, gui, pair >>

\* Move to source idx of the run, or finish the run after the last one.
GoSource(idx) ==
  /\ IF idx <= Len(Sources(script))
     THEN /\ srcIdx' = idx
          /\ itemIdx' = IF IsForum(idx) THEN 1 ELSE 0
          /\ pc' = IF IsForum(idx) THEN "next" ELSE "tg_begin"
     ELSE /\ srcIdx' = 0
          /\ itemIdx' = 0
          /\ pc' = IF script = "social" THEN "tg_done" ELSE "idle"
  /\ calledSincePace' = FALSE
  /\ stats' = ZeroStats
  /\ tally' = ZeroTally

\* __init__ goes through: the ledger is loaded; main() goes on at `to`.
Construct(to) ==
  /\ pc = "down"
  /\ \E readOk \in BOOLEAN : posted_videos' = LoadPostedVideos(disk, readOk)
  /\ \E auth \in (IF script = "social" THEN BOOLEAN ELSE {FALSE}) :
       tgAuthorized' = auth
  /\ pc' = to
  /\ tgConnected' = FALSE
  /\ runStart' = EmptyLedger
  /\ ext' = NoCall
  /\ dlResult' = "none"
  /\ srcIdx' = 0
  /\ itemIdx' = 0
  /\ tgReturn' = NotReturned
  /\ calledSincePace' = FALSE
  /\ stats' = ZeroStats
  /\ tally' = ZeroTally
  /\ ClearItem
  /\ UNCHANGED << config, script, run, disk, posted, recorded, post, tweet, submission,
                  download, gui, pair >>

\* The process starts and loads the ledger.
Start ==
  /\ Construct("idle")
  /\ UNCHANGED cli

\* run(): the scheduler (or --run-once) invokes the pipeline.
RunBegin ==
  /\ pc = "idle"
  /\ run < MaxRuns
  /\ run' = run + 1
  /\ runStart' = posted_videos
  /\ GoSource(1)
  /\ ext' = NoCall
  /\ dlResult' = "none"
  /\ tgReturn' = NotReturned
  /\ KeepItem
  /\ UNCHANGED << post, tweet, cli, submission, download, gui, pair, config, script, posted_videos, disk, tgConnected, tgAuthorized,
                  posted, recorded >>

\* Every variable a step inside the item loop leaves alone unless it says so.
KeepLedger == UNCHANGED << posted_videos, disk >>

KeepSession == UNCHANGED << tgConnected >>

HasItem == pc = "next" /\ itemIdx <= Len(Listing(CurSource))

\* The for loop is exhausted: the source is drained, go to the next one.
SourceDone ==
  /\ pc = "next"
  /\ itemIdx > Len(Listing(CurSource))
  /\ GoSource(srcIdx + 1)
  /\ tgReturn' = IF IsForum(srcIdx) THEN NotReturned ELSE ReturnOnCompletion
  /\ ext' = NoCall
  /\ dlResult' = "none"
  /\ KeepItem
  /\ KeepLedger
  /\ KeepSession
  /\ KeepProcess
  /\ UNCHANGED << posted, recorded >>

\* `if post.id in self.posted_videos: continue`
SkipPosted ==
  /\ HasItem
  /\ AlreadyPosted(posted_videos, Key(CurItem))
  /\ itemIdx' = itemIdx + 1
  /\ stats' = Incremented(stats, {"posts_processed"})
  /\ tally' = Incremented(tally, {"seen"})
  /\ ext' = NoCall
  /\ dlResult' = "none"
  /\ UNCHANGED << pc, srcIdx, tgReturn, calledSincePace >>
  /\ KeepItem
  /\ KeepLedger
  /\ KeepSession
  /\ KeepProcess
  /\ UNCHANGED << posted, recorded >>

\* the forum loop's classification: `if not is_video: continue`
SkipNotVideo ==
  /\ HasItem
  /\ ~AlreadyPosted(posted_videos, Key(CurItem))
  /\ IsForum(srcIdx)
  /\ ~IsVideo(CurItem)
  /\ itemIdx' = itemIdx + 1
  /\ stats' = Incremented(stats, {"posts_processed"})
  /\ tally' = Incremented(tally, {"seen"})
  /\ ext' = NoCall
  /\ dlResult' = "none"
  /\ UNCHANGED << pc, srcIdx, tgReturn, calledSincePace >>
  /\ KeepItem
  /\ KeepLedger
  /\ KeepSession
  /\ KeepProcess
  /\ UNCHANGED << posted, recorded >>

\* The item is new (and, for a forum item, a video): go and fetch it.
BeginFetch ==
  /\ HasItem
  /\ ~AlreadyPosted(posted_videos, Key(CurItem))
  /\ IsForum(srcIdx) => IsVideo(CurItem)
  /\ pc' = "download"
  /\ stats' = Incremented(stats, {"posts_processed", "videos_found"})
  /\ tally' = Incremented(tally, {"seen", "video"})
  /\ ext' = NoCall
  /\ dlResult' = "none"
  /\ UNCHANGED << srcIdx, itemIdx, tgReturn, calledSincePace >>
  /\ KeepItem
  /\ KeepLedger
  /\ KeepSession
  /\ KeepProcess
  /\ UNCHANGED << posted, recorded >>

\* Mutation of AfterAccount: the posting loop stops after the first account.
AfterAccount_firstOnly(idx) == IF idx <= 1 THEN "upload" ELSE "record"

\* Position of the posting loop once account idx is the next to try.
AfterAccount(idx) == IF idx <= Len(Accounts) THEN "upload" ELSE "record"

\* Mutation of AfterFailedFetch: the failure ends the listing, as an exception
\* reaching the except clause of the loop's function would.
AfterFailedFetch_endSource(idx) == Len(Listing(CurSource)) + 1

\* `if not video_path: continue` goes on with the next item of the listing.
AfterFailedFetch(idx) == idx + 1

\* download_video / download_telegram_video returned `res`.
Fetched(res, call) ==
  /\ dlResult' = res
  /\ ext' = call
  /\ IF DownloadFailed(res)
     THEN /\ itemIdx' = AfterFailedFetch(itemIdx)
          /\ pc' = "next"
          /\ acctIdx' = 0
     ELSE /\ itemIdx' = itemIdx
          /\ pc' = AfterAccount(1)
          /\ acctIdx' = 1
  /\ stats' = IF DownloadFailed(res) THEN stats
              ELSE Incremented(stats, {"videos_downloaded"})
  /\ tally' = IF res = "ok" THEN Incremented(tally, {"fetched"}) ELSE tally
  /\ calledSincePace' = IF call = NoCall THEN calledSincePace ELSE TRUE
  /\ tgReturn' = NotReturned
  /\ posted_accounts' = << >>
  /\ attempts' = NoAttempts
  /\ results' = NoResults
  /\ UNCHANGED << srcIdx, mediaState, lastSeen >>
  /\ KeepLedger
  /\ KeepSession
  /\ KeepProcess
  /\ UNCHANGED << posted, recorded >>

\* download_video(post): resolve the URL and stream it to a file.
DownloadVideo ==
  /\ pc = "download"
  /\ IsForum(srcIdx)
  /\ \E d \in DownloadVideoOutcomes(CurItem) :
       Fetched(d.returned,
               IF d.http = "not called" /\ d.lookup = "not called" THEN NoCall
               ELSE Call("download", CurItem, "", "none", d.returned))

\* download_telegram_video(message): None without a download when the
\* message carries no video, else download_media.
DownloadTelegramVideo ==
  /\ pc = "download"
  /\ ~IsForum(srcIdx)
  /\ IF MessageIsVideo(CurItem)
     THEN \E res \in {"ok", "fail"} :
            Fetched(res, Call("download", CurItem, "", "none", res))
     ELSE Fetched("fail", NoCall)

\* Mutation of NextAccount: a failed publish ends the posting loop.
NextAccount_breakOnFailure(idx, returned) ==
  IF returned THEN idx + 1 ELSE Len(Accounts) + 1

\* The `for account_name in self.twitter_clients.keys()` loop goes on to the
\* next account whatever the publish returned.
NextAccount(idx, returned) == idx + 1

\* post_to_twitter / post_telegram_to_twitter returned `returned` for CurAcct.
PublishReturn(returned) ==
  /\ results' = [results EXCEPT ![CurAcct] = IF returned THEN "ok" ELSE "fail"]
  /\ posted_accounts' = AppendIfPosted(posted_accounts, CurAcct, returned)
  /\ acctIdx' = NextAccount(acctIdx, returned)
  /\ pc' = AfterAccount(NextAccount(acctIdx, returned))
  /\ stats' = IF returned THEN Incremented(stats, {"videos_posted"}) ELSE stats
  /\ mediaState' = "none"
  /\ lastSeen' = "unseen"

KeepPosition == UNCHANGED << srcIdx, itemIdx, dlResult, tgReturn >>

\* twitter_api.media_upload(...): the publish function is entered for CurAcct
\* and uploads the file; an exception makes it return False.
Upload ==
  /\ pc = "upload"
  /\ attempts' = [attempts EXCEPT ![CurAcct] = @ + 1]
  /\ \/ \E m \in MediaStates :
          /\ mediaState' = m
          /\ ext' = Call("upload", CurItem, CurAcct, m, "ok")
          /\ pc' = IF PollsStatus(script, IsForum(srcIdx)) THEN "poll_sleep" ELSE "create"
          /\ UNCHANGED << acctIdx, posted_accounts, lastSeen, results, stats >>
     \/ /\ ext' = Call("upload", CurItem, CurAcct, "none", "raise")
        /\ PublishReturn(FALSE)
  /\ calledSincePace' = TRUE
  /\ UNCHANGED tally
  /\ KeepPosition
  /\ KeepLedger
  /\ KeepSession
  /\ KeepProcess
  /\ UNCHANGED << posted, recorded >>

\* time.sleep(5) before a status lookup; the platform goes on processing.
PollSleep ==
  /\ pc = "poll_sleep"
  /\ \E m \in Advance(mediaState) : mediaState' = m
  /\ pc' = "lookup"
  /\ ext' = NoCall
  /\ UNCHANGED << acctIdx, posted_accounts, lastSeen, attempts, results,
                  calledSincePace >>
  /\ KeepCounts
  /\ KeepPosition
  /\ KeepLedger
  /\ KeepSession
  /\ KeepProcess
  /\ UNCHANGED << posted, recorded >>

\* twitter_api.get_media_upload_status(media_id) and the tests on its result.
Lookup ==
  /\ pc = "lookup"
  /\ \/ /\ ext' = Call("lookup", CurItem, CurAcct, mediaState, "ok")
        /\ IF StillProcessing(mediaState)
           THEN /\ pc' = "poll_sleep"
                /\ lastSeen' = mediaState
                /\ UNCHANGED << acctIdx, posted_accounts, mediaState, results,
                                stats >>
           ELSE IF ProcessingFailed(mediaState)
           THEN PublishReturn(FALSE)
           ELSE /\ pc' = "create"
                /\ lastSeen' = mediaState
                /\ UNCHANGED << acctIdx, posted_accounts, mediaState, results,
                                stats >>
     \/ /\ ext' = Call("lookup", CurItem, CurAcct, mediaState, "raise")
        /\ PublishReturn(FALSE)
  /\ calledSincePace' = TRUE
  /\ UNCHANGED << attempts, tally >>
  /\ KeepPosition
  /\ KeepLedger
  /\ KeepSession
  /\ KeepProcess
  /\ UNCHANGED << posted, recorded >>

\* twitter_client.create_tweet(text, media_ids) and the publish's return.
CreateTweet ==
  /\ pc = "create"
  /\ \E resp \in {"ok", "nodata", "raise"} :
       /\ ext' = Call("create", CurItem, CurAcct, mediaState, resp)
       /\ posted' = IF resp = "ok"
                    THEN posted \cup {<<CurItem, CurAcct>>}
                    ELSE posted
       /\ PublishReturn(CreateReturns(script, IsForum(srcIdx), resp))
  /\ calledSincePace' = TRUE
  /\ UNCHANGED << attempts, tally, recorded >>
  /\ KeepPosition
  /\ KeepLedger
  /\ KeepSession
  /\ KeepProcess

\* `if posted_accounts: self.posted_videos[key] = {...}` (else nothing)
Record ==
  /\ pc = "record"
  /\ IF ShouldRecord(posted_accounts)
     THEN /\ posted_videos' = Upsert(posted_videos, Key(CurItem),
                                     Entry(CurItem, run, posted_accounts))
          /\ pc' = "save_open"
          /\ tally' = Incremented(tally, {"published"})
          /\ recorded' = recorded \cup {CurItem}
     ELSE /\ posted_videos' = posted_videos
          /\ pc' = "pace"
          /\ tally' = tally
          /\ recorded' = recorded
  /\ ext' = NoCall
  /\ UNCHANGED << disk, posted, stats, calledSincePace >>
  /\ KeepItem
  /\ KeepPosition
  /\ KeepSession
  /\ KeepProcess

\* A step of _save_posted_videos: only the file and pc change.
SaveStep ==
  /\ ext' = NoCall
  /\ UNCHANGED << posted_videos, posted, recorded, calledSincePace >>
  /\ KeepCounts
  /\ KeepItem
  /\ KeepPosition
  /\ KeepSession
  /\ KeepProcess

\* _save_posted_videos, first half: open("posted_videos.json", 'w') creates
\* or truncates the file.
SaveOpen ==
  /\ pc = "save_open"
  /\ disk' = TruncatedFile
  /\ pc' = "save_write"
  /\ SaveStep

\* open(...) raises: the except clause logs the error and the save is over.
SaveOpenFails ==
  /\ pc = "save_open"
  /\ disk' = disk
  /\ pc' = "pace"
  /\ SaveStep

\* _save_posted_videos, second half: json.dump writes the whole document and
\* the file is closed.
SaveWrite ==
  /\ pc = "save_write"
  /\ disk' = ValidFile(posted_videos)
  /\ pc' = "pace"
  /\ SaveStep

\* json.dump raises part-way: the except clause logs the error.
SaveWriteFails ==
  /\ pc = "save_write"
  /\ disk' = disk
  /\ pc' = "pace"
  /\ SaveStep

\* time.sleep(5) / asyncio.sleep(5) at the end of the loop body.
Pace ==
  /\ pc = "pace"
  /\ itemIdx' = itemIdx + 1
  /\ pc' = "next"
  /\ calledSincePace' = FALSE
  /\ ext' = NoCall
  /\ dlResult' = "none"
  /\ ClearItem
  /\ UNCHANGED << srcIdx, posted, recorded, tgReturn >>
  /\ KeepCounts
  /\ KeepLedger
  /\ KeepSession
  /\ KeepProcess

\* A step of the channel preamble: only pc, the session and ext change.
TgStep ==
  /\ dlResult' = "none"
  /\ KeepItem
  /\ KeepLedger
  /\ KeepProcess
  /\ UNCHANGED << posted, recorded >>

\* process_telegram_channel: `if not is_connected(): await connect()`
TgConnect ==
  /\ pc = "tg_begin"
  /\ IF tgConnected
     THEN /\ pc' = "tg_list"
          /\ ext' = NoCall
          /\ tgReturn' = NotReturned
          /\ UNCHANGED << srcIdx, itemIdx, tgConnected, calledSincePace >>
          /\ KeepCounts
     ELSE \/ /\ tgConnected' = TRUE
             /\ pc' = "tg_auth"
             /\ ext' = Call("connect", NoItem, "", "none", "ok")
             /\ tgReturn' = NotReturned
             /\ UNCHANGED << srcIdx, itemIdx, calledSincePace >>
             /\ KeepCounts
          \/ /\ tgConnected' = FALSE
             /\ ext' = Call("connect", NoItem, "", "none", "raise")
             /\ tgReturn' = ReturnOnError
             /\ GoSource(srcIdx + 1)
  /\ TgStep

\* `if not await is_user_authorized():`
TgCheckAuthorized ==
  /\ pc = "tg_auth"
  /\ pc' = IF tgAuthorized THEN "tg_list" ELSE "tg_code"
  /\ ext' = Call("is_user_authorized", NoItem, "", "none",
                 IF tgAuthorized THEN "yes" ELSE "no")
  /\ tgReturn' = NotReturned
  /\ UNCHANGED << srcIdx, itemIdx, tgConnected, calledSincePace >>
  /\ KeepCounts
  /\ TgStep

\* Mutation of AfterAuthRequired: the pause ends the run.
AfterAuthRequired_abort(idx) == Len(Sources(script)) + 1

\* process_telegram_channel returns to the `for channel in channels` loop of
\* process_all_telegram_channels, which goes on with the next channel.
AfterAuthRequired(idx) == idx + 1

\* send_code_request(phone), the two warnings, `return`
TgSendCode ==
  /\ pc = "tg_code"
  /\ ext' = Call("send_code_request", NoItem, "", "none", "ok")
  /\ tgReturn' = ReturnOnAuthRequired
  /\ GoSource(AfterAuthRequired(srcIdx))
  /\ UNCHANGED tgConnected
  /\ TgStep

\* messages = await get_messages(channel_username, limit); on a session that
\* is not authorized the call raises and the except clause ends the channel.
TgGetMessages ==
  /\ pc = "tg_list"
  /\ IF tgAuthorized
     THEN /\ pc' = "next"
          /\ itemIdx' = 1
          /\ srcIdx' = srcIdx
          /\ ext' = Call("get_messages", NoItem, "", "none", "ok")
          /\ tgReturn' = NotReturned
          /\ UNCHANGED calledSincePace
          /\ KeepCounts
     ELSE /\ ext' = Call("get_messages", NoItem, "", "none", "raise")
          /\ tgReturn' = ReturnOnError
          /\ GoSource(srcIdx + 1)
  /\ UNCHANGED tgConnected
  /\ TgStep

\* process_all_telegram_channels, after the loop: disconnect if connected;
\* run() returns.
TgDisconnect ==
  /\ pc = "tg_done"
  /\ tgConnected' = FALSE
  /\ ext' = IF tgConnected THEN Call("disconnect", NoItem, "", "none", "ok") ELSE NoCall
  /\ pc' = "idle"
  /\ tgReturn' = NotReturned
  /\ UNCHANGED << srcIdx, itemIdx, calledSincePace >>
  /\ KeepCounts
  /\ TgStep

\* Everything the process held in memory is gone.
ProcessGone ==
  /\ pc' = "down"
  /\ posted_videos' = EmptyLedger
  /\ runStart' = EmptyLedger
  /\ tgConnected' = FALSE
  /\ tgAuthorized' = FALSE
  /\ srcIdx' = 0
  /\ itemIdx' = 0
  /\ dlResult' = "none"
  /\ ext' = NoCall
  /\ tgReturn' = NotReturned
  /\ calledSincePace' = FALSE
  /\ stats' = ZeroStats
  /\ tally' = ZeroTally
  /\ ClearItem
  /\ UNCHANGED << config, script, run, disk, posted, recorded, post, tweet, cli, submission, download, gui, pair >>

\* main() returns after reposter.run() (--run-once).
Exit ==
  /\ pc = "idle"
  /\ ProcessGone

\* The GUI's stop action, process.terminate(), between two items or sources.
KillBetweenItems ==
  /\ pc \notin {"down", "idle"} \cup MidItemPcs
  /\ ProcessGone

\* process.terminate() while an item is being fetched, published or recorded.
KillMidItem ==
  /\ pc \in MidItemPcs
  /\ ProcessGone

\* process_subreddit, `except Exception as e: logger.error(...)`: the function
\* falls off its end and run() takes the source after the one at idx.
AfterSourceError_abort(idx) == Len(Sources(script)) + 1

AfterSourceError(idx) == idx + 1

\* `for post in subreddit.hot(limit=limit)`: the listing raises, at its first
\* request or part-way, and the handler of process_subreddit logs the error.
ListingRaises ==
  /\ pc = "next"
  /\ srcIdx >= 1
  /\ IsForum(srcIdx)
  /\ GoSource(AfterSourceError(srcIdx))
  /\ tgReturn' = NotReturned
  /\ ext' = Call("hot", NoItem, "", "none", "error")
  /\ dlResult' = "none"
  /\ KeepItem
  /\ KeepLedger
  /\ KeepSession
  /\ KeepProcess
  /\ UNCHANGED << posted, recorded >>

\* Steps of a process whose ledger saves go through and that is only ever
\* stopped between items.
OrderlyNext ==
  \/ Start
  \/ RunBegin
  \/ SourceDone
  \/ SkipPosted
  \/ SkipNotVideo
  \/ BeginFetch
  \/ DownloadVideo
  \/ DownloadTelegramVideo
  \/ Upload
  \/ PollSleep
  \/ Lookup
  \/ CreateTweet
  \/ Record
  \/ SaveOpen
  \/ SaveWrite
  \/ Pace
  \/ TgConnect
  \/ TgCheckAuthorized
  \/ TgSendCode
  \/ TgGetMessages
  \/ TgDisconnect
  \/ Exit
  \/ KillBetweenItems

Next ==
  \/ OrderlyNext
  \/ SaveOpenFails
  \/ SaveWriteFails
  \/ KillMidItem

Spec == Init /\ [][Next]_vars

\* ------------------------------------------------------------------------
\* The text of a post, over the titles, bodies and links of TweetInputs
\* ------------------------------------------------------------------------

\* Everything but the text.
processVars == << cli, submission, download, gui, pair, recorded, tgReturn, calledSincePace, stats, tally, config, pc, script, run, srcIdx, itemIdx, acctIdx,
                  posted_accounts, posted_videos, disk, tgConnected,
                  tgAuthorized, mediaState, lastSeen, ext, posted, attempts,
                  results, dlResult, runStart >>

\* Everything but the text, the post studied and its download.
processVarsButDownload == << cli, gui, pair, recorded, tgReturn, calledSincePace, stats, tally, config, pc, script, run, srcIdx, itemIdx, acctIdx,
                  posted_accounts, posted_videos, disk, tgConnected,
                  tgAuthorized, mediaState, lastSeen, ext, posted, attempts,
                  results, dlResult, runStart >>

TextInit ==
  /\ ProcessInit
  /\ config = "one_each"
  /\ post \in TweetInputs
  /\ tweet = NoTweet
  /\ cli = NoInvocation
  /\ submission = NoItem
  /\ download = NoDownload
  /\ gui = NoGui
  /\ pair = NoPair

\* SocialMediaToTwitter.post_to_twitter composes the text of a forum post.
ComposePost ==
  /\ script = "social"
  /\ tweet = NoTweet
  /\ tweet' = Tweet("post_to_twitter",
                    PostText(post.title, post.selftext,
                             post.include_text_content, post.permalink))
  /\ UNCHANGED << post, processVars >>

\* RedditToTwitter.post_to_twitter composes the text of a forum post.
ComposeRedditPost ==
  /\ script = "reddit"
  /\ tweet = NoTweet
  /\ tweet' = Tweet("post_to_twitter", RedditPostText(post.title, post.permalink))
  /\ UNCHANGED << post, processVars >>

\* post_telegram_to_twitter composes the text of a channel message.
ComposeTelegram ==
  /\ script = "social"
  /\ tweet = NoTweet
  /\ tweet' = Tweet("post_telegram_to_twitter",
                    TelegramText(post.text, post.channel_name))
  /\ UNCHANGED << post, processVars >>

TextNext == ComposePost \/ ComposeRedditPost \/ ComposeTelegram

TextSpec == TextInit /\ [][TextNext]_vars

\* ------------------------------------------------------------------------
\* main(): one invocation of the entry point, from its arguments to its
\* exit code
\* ------------------------------------------------------------------------

\* What the constructor can do: go through, or raise because config.json is
\* missing (FileNotFoundError, logged and raised again), is not valid JSON
\* (json.load raises), or praw.Reddit raises (logged and raised again).
InitOutcomes == {"ok", "config_missing", "config_invalid", "reddit_error"}

\* Mutation of Raises: the constructor never raises.
Raises_never(outcome) == FALSE

\* The constructor raised: main() goes to its `except Exception` clause.
Raises(outcome) == outcome # "ok"

\* main(), `return 0` at its end
ExitOk == 0

\* main(), `except Exception as e: ... return 1`
ExitError == 1

\* reposter.telegram is not None: the telegram section of config.json has
\* api_id and api_hash.
HasTelegram == script = "social" /\ Len(Channels) > 0

\* The arguments each entry point accepts.
ArgsOf(s) ==
  IF s = "social"
  THEN { Args(o, c, u) : o \in BOOLEAN, c \in BOOLEAN, u \in BOOLEAN }
  ELSE { Args(o, FALSE, FALSE) : o \in BOOLEAN }

\* Positions of main() in its --telegram-code block.
SigninPcs == {"signin_connect", "signin_check", "signin_code",
              "signin_disconnect"}

\* Everything main() leaves alone outside the constructor and the run.
mainKeeps == << post, tweet, submission, download, gui, pair, recorded, tgReturn, calledSincePace, stats, tally,
               config, script, run, srcIdx, itemIdx, acctIdx, posted_accounts,
               posted_videos, disk, mediaState, lastSeen, posted, attempts,
               results, dlResult, runStart >>

CliInit ==
  /\ ProcessInit
  /\ post = NoPost
  /\ tweet = NoTweet
  /\ cli \in { Invocation(a) : a \in ArgsOf(script) }
  /\ submission = NoItem
  /\ download = NoDownload
  /\ gui = NoGui
  /\ pair = NoPair

\* main() returns `code`.
Return(code) ==
  /\ cli' = [cli EXCEPT !.returned = TRUE, !.code = code]
  /\ pc' = "down"

\* --setup: the OAuth helper is run and main() returns, 1 if oauth_helper.py
\* is missing or raises, 0 otherwise.
MainSetup ==
  /\ pc = "down"
  /\ ~cli.returned
  /\ cli.args.setup
  /\ \E helper \in {"ok", "missing", "raises"} :
       Return(IF helper = "ok" THEN ExitOk ELSE ExitError)
  /\ ext' = NoCall
  /\ UNCHANGED << mainKeeps, tgConnected, tgAuthorized >>

\* Where main() goes on after the constructor.
AfterInit ==
  IF cli.args.telegram_code /\ HasTelegram THEN "signin_connect" ELSE "idle"

\* reposter = SocialMediaToTwitter(config_path=args.config)
MainInit ==
  /\ pc = "down"
  /\ ~cli.returned
  /\ ~cli.args.setup
  /\ cli.init = "pending"
  /\ \E outcome \in InitOutcomes :
       IF Raises(outcome)
       THEN /\ cli' = [cli EXCEPT !.init = outcome, !.returned = TRUE,
                                  !.code = ExitError]
            /\ ext' = NoCall
            /\ UNCHANGED << mainKeeps, pc, tgConnected, tgAuthorized >>
       ELSE /\ cli' = [cli EXCEPT !.init = outcome]
            /\ Construct(AfterInit)

\* asyncio.run(reposter.telegram.connect())
SigninConnect ==
  /\ pc = "signin_connect"
  /\ \/ /\ tgConnected' = TRUE
        /\ pc' = "signin_check"
        /\ ext' = Call("connect", NoItem, "", "none", "ok")
        /\ UNCHANGED cli
     \/ /\ tgConnected' = FALSE
        /\ ext' = Call("connect", NoItem, "", "none", "raise")
        /\ Return(ExitError)
  /\ UNCHANGED << mainKeeps, tgAuthorized >>

\* `if not asyncio.run(reposter.telegram.is_user_authorized()):`
SigninCheck ==
  /\ pc = "signin_check"
  /\ \/ /\ pc' = IF tgAuthorized THEN "signin_disconnect" ELSE "signin_code"
        /\ ext' = Call("is_user_authorized", NoItem, "", "none",
                       IF tgAuthorized THEN "yes" ELSE "no")
        /\ UNCHANGED cli
     \/ /\ ext' = Call("is_user_authorized", NoItem, "", "none", "raise")
        /\ Return(ExitError)
  /\ UNCHANGED << mainKeeps, tgConnected, tgAuthorized >>

\* `if phone: sign_in(phone, args.telegram_code)`, else the error about the
\* missing phone number.  sign_in raises on a wrong or expired code.
SigninCode ==
  /\ pc = "signin_code"
  /\ \/ /\ tgAuthorized' = TRUE
        /\ pc' = "signin_disconnect"
        /\ ext' = Call("sign_in", NoItem, "", "none", "ok")
        /\ UNCHANGED cli
     \/ /\ tgAuthorized' = FALSE
        /\ ext' = Call("sign_in", NoItem, "", "none", "raise")
        /\ Return(ExitError)
     \/ /\ tgAuthorized' = FALSE
        /\ pc' = "signin_disconnect"
        /\ ext' = NoCall
        /\ UNCHANGED cli
  /\ UNCHANGED << mainKeeps, tgConnected >>

\* asyncio.run(reposter.telegram.disconnect())
SigninDisconnect ==
  /\ pc = "signin_disconnect"
  /\ tgConnected' = FALSE
  /\ pc' = "idle"
  /\ ext' = Call("disconnect", NoItem, "", "none", "ok")
  /\ UNCHANGED << mainKeeps, tgAuthorized, cli >>

\* `if args.run_once: reposter.run()`, or the scheduler's run_pending() finds
\* the job due.
MainRun ==
  /\ cli.init = "ok"
  /\ cli.args.run_once => run = 0
  /\ RunBegin

\* reposter.run() has returned: `return 0`
MainReturn ==
  /\ pc = "idle"
  /\ cli.args.run_once
  /\ run > 0
  /\ Return(ExitOk)
  /\ ext' = NoCall
  /\ UNCHANGED << mainKeeps, tgConnected, tgAuthorized >>

CliNext ==
  \/ MainSetup
  \/ MainInit
  \/ SigninConnect
  \/ SigninCheck
  \/ SigninCode
  \/ SigninDisconnect
  \/ MainRun
  \/ MainReturn
  \/ SourceDone
  \/ SkipPosted
  \/ SkipNotVideo
  \/ BeginFetch
  \/ DownloadVideo
  \/ DownloadTelegramVideo
  \/ Upload
  \/ PollSleep
  \/ Lookup
  \/ CreateTweet
  \/ Record
  \/ SaveOpen
  \/ SaveWrite
  \/ Pace
  \/ TgConnect
  \/ TgCheckAuthorized
  \/ TgSendCode
  \/ TgGetMessages
  \/ TgDisconnect

\* One invocation of main(), in which no save fails and nothing stops the
\* process from outside.
CliSpec == CliInit /\ [][CliNext]_vars

\* ------------------------------------------------------------------------
\* Classification and download of one forum post, over the posts of
\* Submissions
\* ------------------------------------------------------------------------

\* post.domain and post.url of the links considered.
Links ==
  { [domain |-> <<"v.redd.it">>, url |-> <<"https://", "v.redd.it", "/", "x1">>],
    [domain |-> <<"youtube.com">>,
     url |-> <<"https://", "youtube.com", "/watch?v=", "x1">>],
    [domain |-> <<"youtu.be">>, url |-> <<"https://", "youtu.be", "/", "x1">>],
    [domain |-> <<"vimeo.com">>, url |-> <<"https://", "vimeo.com", "/", "x1">>],
    [domain |-> <<"youtube.com">>,
     url |-> <<"https://", "youtube.com", "/redirect?q=", "gfycat.com", "/", "x1">>],
    [domain |-> <<"gfycat.com">>, url |-> <<"https://", "gfycat.com", "/", "x1">>],
    [domain |-> <<"gfycat.com">>,
     url |-> <<"https://", "gfycat.com", "/", "imgur.com", "-copy", ".gifv">>],
    [domain |-> <<"i.", "imgur.com">>, url |-> ImgurGifv("x1")],
    [domain |-> <<"i.", "imgur.com">>,
     url |-> <<"https://", "i.", "imgur.com", "/", "x1", ".mp4">>],
    [domain |-> <<"imgur.com">>,
     url |-> <<"https://", "imgur.com", "/a/", "x1">>],
    [domain |-> <<"example.com">>,
     url |-> <<"https://", "example.com", "/", "x1">>] }

\* The posts considered: every link, flagged as video by the forum or not,
\* with or without media metadata.
Submissions ==
  { [kind |-> "forum", src |-> "sub1", id |-> "x1", is_video |-> v,
     domain |-> l.domain, url |-> l.url, media |-> m] :
      v \in BOOLEAN, l \in Links, m \in {NoMedia, FallbackUrl("x1")} }

\* The loop body skipped the post: `if not is_video: continue`.
FilteredOut == [lookup |-> "not called", video_url |-> NotFound,
                http |-> "not called", returned |-> "skipped"]

FetchInit ==
  /\ ProcessInit
  /\ config = "one_each"
  /\ post = NoPost
  /\ tweet = NoTweet
  /\ cli = NoInvocation
  /\ submission \in Submissions
  /\ download = NoDownload
  /\ gui = NoGui
  /\ pair = NoPair

\* process_subreddit skips a post that is not classified as video.
FilterOut ==
  /\ download = NoDownload
  /\ ~IsVideo(submission)
  /\ download' = FilteredOut
  /\ UNCHANGED << post, tweet, submission, processVarsButDownload >>

\* process_subreddit calls download_video for a post classified as video.
DownloadSubmission ==
  /\ download = NoDownload
  /\ IsVideo(submission)
  /\ download' \in DownloadVideoOutcomes(submission)
  /\ UNCHANGED << post, tweet, submission, processVarsButDownload >>

\* download_video(post) called on its own, whatever the classification.
DownloadVideoCall ==
  /\ download = NoDownload
  /\ download' \in DownloadVideoOutcomes(submission)
  /\ UNCHANGED << post, tweet, submission, processVarsButDownload >>

FetchNext == FilterOut \/ DownloadSubmission \/ DownloadVideoCall

FetchSpec == FetchInit /\ [][FetchNext]_vars

\* The runs in which no save fails and no process is killed mid-item.
OrderlySpec == Init /\ [][OrderlyNext]_vars

---------------------------------------------------------------------------
\* gui.py: run_script, run_oauth_helper, their read_output threads, /stop.

guiKeeps == << post, tweet, cli, submission, download, pair, recorded, tgReturn,
               calledSincePace, stats, tally, config, pc, script, run, srcIdx,
               itemIdx, acctIdx, posted_accounts, posted_videos, disk,
               tgConnected, tgAuthorized, mediaState, lastSeen, ext, posted,
               attempts, results, dlResult, runStart >>

GuiInit ==
  /\ ProcessInit
  /\ config = "one_each"
  /\ post = NoPost
  /\ tweet = NoTweet
  /\ cli = NoInvocation
  /\ submission = NoItem
  /\ download = NoDownload
  /\ gui = NoGui
  /\ pair = NoPair

At(h, where) == gui.handler[h].pc = where

\* The request thread h goes to `where`.
Goes(h, where) == [gui.handler[h] EXCEPT !.pc = where]

\* run_script / run_oauth_helper: `if is_running: return False` read False.
\* (When it reads True the request returns and changes nothing.)
RunCheck(h, cmd) ==
  /\ At(h, "idle")
  /\ ~gui.is_running
  /\ gui' = [gui EXCEPT !.handler[h] = [pc |-> "set", cmd |-> cmd,
                                         child |-> "None"]]
  /\ UNCHANGED guiKeeps

\* `is_running = True`
SetRunning(h) ==
  /\ At(h, "set")
  /\ gui' = [gui EXCEPT !.is_running = TRUE,
                        !.handler[h] = Goes(h, "popen")]
  /\ UNCHANGED guiKeeps

\* `process = subprocess.Popen(...)`: a new child runs and the global names it.
Popen(h) ==
  /\ At(h, "popen")
  /\ gui.started # Children
  /\ LET c == NewChild(gui.started) IN
       gui' = [gui EXCEPT !.process = c,
                          !.started = @ \cup {c},
                          !.alive = @ \cup {c},
                          !.kind[c] = gui.handler[h].cmd,
                          !.handler[h] = [Goes(h, "thread") EXCEPT !.child = c]]
  /\ UNCHANGED guiKeeps

\* Popen raises: `except Exception: is_running = False; return False`
PopenFails(h) ==
  /\ At(h, "popen")
  /\ gui' = [gui EXCEPT !.is_running = FALSE, !.handler[h] = NoRequest]
  /\ UNCHANGED guiKeeps

\* `threading.Thread(target=read_output, daemon=True).start(); return True`
StartReader(h) ==
  /\ At(h, "thread")
  /\ gui' = [gui EXCEPT !.reader[gui.handler[h].child].pc = "start",
                        !.handler[h] = NoRequest]
  /\ UNCHANGED guiKeeps

\* read_output, `iter(process.stdout.readline, '')`: the thread takes the
\* stdout of the process the global names when the thread gets to run.
ReaderBind(c) ==
  /\ gui.reader[c].pc = "start"
  /\ gui' = [gui EXCEPT !.reader[c] = [pc |-> "reading", reads |-> gui.process,
                                        waits |-> "None"]]
  /\ UNCHANGED guiKeeps

\* readline returns '': the process whose stdout is read has ended.
ReaderEof(c) ==
  /\ gui.reader[c].pc = "reading"
  /\ gui.reader[c].reads \notin gui.alive
  /\ gui' = [gui EXCEPT !.reader[c].pc = "close"]
  /\ UNCHANGED guiKeeps

\* `process.stdout.close(); process.wait()`: both on the process the global
\* names now.
ReaderClose(c) ==
  /\ gui.reader[c].pc = "close"
  /\ gui' = [gui EXCEPT !.reader[c].pc = "wait",
                        !.reader[c].waits = gui.process]
  /\ UNCHANGED guiKeeps

\* process.wait() returns.
ReaderWaited(c) ==
  /\ gui.reader[c].pc = "wait"
  /\ gui.reader[c].waits \notin gui.alive
  /\ gui' = [gui EXCEPT !.reader[c].pc = "clear"]
  /\ UNCHANGED guiKeeps

\* read_output, `is_running = False`
ReaderClear(c) ==
  /\ gui.reader[c].pc = "clear"
  /\ gui' = [gui EXCEPT !.is_running = FALSE, !.reader[c].pc = "done"]
  /\ UNCHANGED guiKeeps

\* /stop: `if process and is_running:` read true.  (Otherwise the request
\* returns and changes nothing.)
StopCheck(h) ==
  /\ At(h, "idle")
  /\ gui.process # "None"
  /\ gui.is_running
  /\ gui' = [gui EXCEPT !.handler[h] = Goes(h, "terminate")]
  /\ UNCHANGED guiKeeps

\* `process.terminate()`: SIGTERM is sent to the process the global names; the
\* call returns without waiting for it to end.
Terminate(h) ==
  /\ At(h, "terminate")
  /\ gui' = [gui EXCEPT !.handler[h] = Goes(h, "stopped")]
  /\ UNCHANGED guiKeeps

\* /stop, `is_running = False`
StopClear(h) ==
  /\ At(h, "stopped")
  /\ gui' = [gui EXCEPT !.is_running = FALSE, !.handler[h] = NoRequest]
  /\ UNCHANGED guiKeeps

\* A child ends: the script or the helper is done, or the signal took effect.
ChildExits(c) ==
  /\ c \in gui.alive
  /\ gui' = [gui EXCEPT !.alive = @ \ {c}]
  /\ UNCHANGED guiKeeps

GuiNext ==
  \/ \E h \in Handlers, cmd \in Commands : RunCheck(h, cmd)
  \/ \E h \in Handlers : SetRunning(h)
  \/ \E h \in Handlers : Popen(h)
  \/ \E h \in Handlers : PopenFails(h)
  \/ \E h \in Handlers : StartReader(h)
  \/ \E h \in Handlers : StopCheck(h)
  \/ \E h \in Handlers : Terminate(h)
  \/ \E h \in Handlers : StopClear(h)
  \/ \E c \in Children : ReaderBind(c)
  \/ \E c \in Children : ReaderEof(c)
  \/ \E c \in Children : ReaderClose(c)
  \/ \E c \in Children : ReaderWaited(c)
  \/ \E c \in Children : ReaderClear(c)
  \/ \E c \in Children : ChildExits(c)

GuiSpec == GuiInit /\ [][GuiNext]_vars

---------------------------------------------------------------------------
\* process_subreddit of reddit_to_twitter.py beside process_subreddit of
\* social_media_to_twitter.py.

pairKeeps == << post, tweet, cli, submission, download, gui, recorded,
                tgReturn, calledSincePace, stats, tally, config, pc, script,
                run, srcIdx, itemIdx, acctIdx, posted_accounts, posted_videos,
                disk, tgConnected, tgAuthorized, mediaState, lastSeen, ext,
                posted, attempts, results, dlResult, runStart >>

PairListings == { Listing(s) : s \in {"sub1", "sub2", "sub3"} }

Ids(posts) == { posts[n].id : n \in 1..Len(posts) }

\* The ledgers a run can start from: empty, or holding the first post.
PairLedgers(posts) ==
  {EmptyLedger, Upsert(EmptyLedger, posts[1].id, Entry(posts[1], 0, <<"acctA">>))}

PairInit ==
  /\ ProcessInit
  /\ config = "one_each"
  /\ post = NoPost
  /\ tweet = NoTweet
  /\ cli = NoInvocation
  /\ submission = NoItem
  /\ download = NoDownload
  /\ gui = NoGui
  /\ \E posts \in PairListings :
       \E L \in PairLedgers(posts), fetched \in SUBSET Ids(posts),
          published \in SUBSET (Ids(posts) \X AcctSet) :
         pair = Pair(L, posts, fetched, published)

\* What download_video(post) returns.
DownloadReturns(p) == IF p.id \in pair.fetched THEN "ok" ELSE "fail"

\* `for account_name in self.twitter_clients.keys(): if
\* self.post_to_twitter(...): posted_accounts.append(account_name)`, for the
\* first n accounts.
RECURSIVE PostToEach(_, _)
PostToEach(p, n) ==
  IF n = 0 THEN << >>
  ELSE AppendIfPosted(PostToEach(p, n - 1), Accounts[n],
                      <<p.id, Accounts[n]>> \in pair.published)

\* The post_to_twitter calls of that loop.
PostCalls(p) == [n \in 1..Len(Accounts) |-> <<"post_to_twitter", p.id, Accounts[n]>>]

\* Mutation of RedditSkips: a post is skipped unless the forum flags it.
RedditSkips_unflagged(p) == ~p.is_video

\* reddit_to_twitter.py: `if not (hasattr(post, 'is_video') and post.is_video)
\* and not any(domain in post.url for domain in [...]): continue`
RedditSkips(p) ==
  ~p.is_video /\ ~(\E d \in VideoDomains : Contains(p.url, d))

\* One pass of the loop of RedditToTwitter.process_subreddit, for post p.
RedditIteration(r, p) ==
  LET next == [r EXCEPT !.idx = @ + 1]
      fetch == [next EXCEPT !.calls = Append(@, <<"download_video", p.id>>)]
      posts == [fetch EXCEPT !.calls = @ \o PostCalls(p)]
      posted_to == PostToEach(p, Len(Accounts))
      L == Upsert(r.posted_videos, p.id, Entry(p, 1, posted_to))
  IN  IF AlreadyPosted(r.posted_videos, p.id) THEN next
      ELSE IF RedditSkips(p) THEN next
      ELSE IF DownloadFailed(DownloadReturns(p)) THEN fetch
      ELSE IF ShouldRecord(posted_to)
           THEN [posts EXCEPT !.posted_videos = L, !.file = L]
           ELSE posts

\* One pass of the loop of SocialMediaToTwitter.process_subreddit, for post p.
SocialIteration(r, p) ==
  LET next == [r EXCEPT !.idx = @ + 1]
      is_video == IsVideo(p)
      fetch == [next EXCEPT !.calls = Append(@, <<"download_video", p.id>>)]
      posts == [fetch EXCEPT !.calls = @ \o PostCalls(p)]
      posted_to == PostToEach(p, Len(Accounts))
      L == Upsert(r.posted_videos, p.id, Entry(p, 1, posted_to))
  IN  IF AlreadyPosted(r.posted_videos, p.id) THEN next
      ELSE IF ~is_video THEN next
      ELSE IF DownloadFailed(DownloadReturns(p)) THEN fetch
      ELSE IF ShouldRecord(posted_to)
           THEN [posts EXCEPT !.posted_videos = L, !.file = L]
           ELSE posts

\* RedditToTwitter.process_subreddit takes the next post of the listing.
StepReddit ==
  /\ pair.reddit.idx <= Len(pair.posts)
  /\ pair' = [pair EXCEPT !.reddit = RedditIteration(@, pair.posts[@.idx])]
  /\ UNCHANGED pairKeeps

\* SocialMediaToTwitter.process_subreddit takes the next post of the listing.
StepSocial ==
  /\ pair.social.idx <= Len(pair.posts)
  /\ pair' = [pair EXCEPT !.social = SocialIteration(@, pair.posts[@.idx])]
  /\ UNCHANGED pairKeeps

PairNext == StepReddit \/ StepSocial

PairSpec == PairInit /\ [][PairNext]_vars

\* The orderly steps, and the forum listing raising instead of yielding its
\* next post.
RaisingNext ==
  \/ OrderlyNext
  \/ ListingRaises

RaisingSpec == Init /\ [][RaisingNext]_vars

\* The process keeps running: some step is always eventually taken.
FairSpec == Spec /\ WF_vars(Next)

\* The orderly runs of a process that keeps running.
OrderlyFairSpec == OrderlySpec /\ WF_vars(OrderlyNext)

TypeOK ==
  /\ pc \in {"down", "idle", "next", "download", "upload", "poll_sleep",
             "lookup", "create", "record", "save_open", "save_write", "pace",
             "tg_begin", "tg_auth", "tg_code", "tg_list", "tg_done"}
            \cup SigninPcs
  /\ config \in Configs
  /\ script \in Scripts
  /\ run \in 0..MaxRuns
  /\ mediaState \in MediaStates
  /\ lastSeen \in MediaStates \cup {"unseen"}
  /\ dlResult \in {"none", "ok", "fail"}
  /\ tgReturn \in {NotReturned, PyNone}
  /\ calledSincePace \in BOOLEAN
  /\ \A f \in DOMAIN stats : stats[f] \in 0..(2 * Len(Accounts))
  /\ \A f \in DOMAIN tally : tally[f] \in 0..2
  /\ tweet = NoTweet

\* ------------------------------------------------------------------------
\* Properties
\* ------------------------------------------------------------------------

\* The calls that fetch or publish an item.
FetchOps == {"download"}

PublishOps == {"upload", "lookup", "create"}

\* The last step made a fetch or publish call for item it.
Touched(it) == ext.op \in FetchOps \cup PublishOps /\ ext.item = it

\* The item was in the ledger, with a non-empty posted_to, when the run began.
HandledAtRunStart(it) ==
  /\ Key(it) \in DOMAIN runStart
  /\ runStart[Key(it)].posted_to # << >>

\* C1 (idempotence): an item that was in self.posted_videos with a non-empty
\* posted_to when the run started is not fetched and not published during the
\* run, and its entry stays identical to the one the run started with.
C1_Idempotence ==
  pc # "down" =>
    \A it \in AllItems :
      HandledAtRunStart(it) =>
        /\ ~Touched(it)
        /\ pc \in MidItemPcs => CurItem # it
        /\ Key(it) \in DOMAIN posted_videos
        /\ posted_videos[Key(it)] = runStart[Key(it)]

\* A run has started with a handled item in the ledger, has passed over it and
\* has completed.
C1_Witness ==
  /\ pc = "idle"
  /\ run = 2
  /\ \E it \in AllItems :
       /\ HandledAtRunStart(it)
       /\ runStart[Key(it)].posted_at = 1
       /\ posted_videos[Key(it)] = runStart[Key(it)]

\* The step creates a post of item it on account a.
CreatesPost(it, a) ==
  /\ ext'.op = "create"
  /\ ext'.res = "ok"
  /\ ext'.item = it
  /\ ext'.acct = a

\* C2 (no duplicate reposts): over all the runs and process restarts, no post
\* is created for an item on an account on which a post of that item was
\* created before.  (Stated of OrderlySpec: every save goes through and no
\* process is killed in the middle of an item.)
C2_NoDuplicateReposts ==
  [][ \A p \in posted : ~CreatesPost(p[1], p[2]) ]_vars

\* The accounts for which the publish of the current item returned success,
\* in the order of the posting loop.
SucceededAccounts == SelectSeq(Accounts, LAMBDA a : results[a] = "ok")

SomeSucceeded == \E a \in AcctSet : results[a] = "ok"

SomeFailed == \E a \in AcctSet : results[a] = "fail"

AllFailed == \A a \in AcctSet : results[a] = "fail"

\* The entry of item it lists some but not all of the accounts.
PartialRecord(it) ==
  /\ Key(it) \in DOMAIN posted_videos
  /\ Len(posted_videos[Key(it)].posted_to) \in 1..(Len(Accounts) - 1)

C6_DestinationIndependence ==
  /\ \A a \in AcctSet : attempts[a] <= 1
  /\ pc \in {"record", "save_open", "save_write", "pace"} =>
       \A a \in AcctSet : attempts[a] = 1 /\ results[a] \in {"ok", "fail"}
  /\ pc \in PublishPcs =>
       \A i \in 1..Len(Accounts) :
         attempts[Accounts[i]] = (IF i <= acctIdx /\ (i < acctIdx \/ pc # "upload") THEN 1 ELSE 0)

\* The first account's publish failed on a raised exception, and the second
\* account was attempted all the same.
C6_Witness ==
  /\ pc = "record"
  /\ results[Accounts[1]] = "fail"
  /\ attempts[Accounts[2]] = 1
  /\ results[Accounts[2]] = "ok"

SavePcs == {"save_open", "save_write"}

\* C7 (ledger atomicity): when the process is killed during
\* _save_posted_videos, the ledger file afterwards is either the file as it was
\* before the save or the complete document of the updated ledger.
C7_LedgerAtomicity ==
  [][ (pc \in SavePcs /\ pc' = "down") =>
         \/ pc = "save_open" /\ disk' = disk
         \/ disk' = ValidFile(posted_videos) ]_vars

PollPcs == {"poll_sleep", "lookup"}

\* C8 (bounded media-processing poll): a publish that is polling the media
\* status always leaves the poll loop, even if the platform never leaves
\* pending / in_progress.
C8_BoundedPoll == [](pc \in PollPcs => <>(pc \notin PollPcs))

\* C9 (failed processing is never success): when the processing state of the
\* uploaded media is failed, no post is created with it and the publish for
\* that destination does not return success.
C9_FailedIsNeverSuccess ==
  (ext.op = "create" /\ ext.media = "failed") =>
     /\ ext.res # "ok"
     /\ results[ext.acct] # "ok"

\* C10 (two-phase ordering): every post-creation call is made after a status
\* lookup of this publish returned a state that is neither pending nor
\* in_progress, and never while the media is still being processed.
C10_TwoPhaseOrdering ==
  ext.op = "create" =>
     /\ ext.seen \notin Processing \cup {"unseen"}
     /\ ext.media \notin Processing

\* The attribution the text was composed with: its last segment.
Attribution(t) == t[Len(t)]

\* C11 (text truncation keeps the link): the text passed to create_tweet is
\* at most 280 characters long and ends with the complete "Source: ..."
\* attribution it was composed with (which alone fits in 280 characters):
\* what the slice removes is title or body, never the link.
C11_TruncationKeepsLink ==
  (tweet # NoTweet /\ Attribution(tweet.tweet_text).len <= TweetLimit) =>
     /\ TextLen(tweet.sent) <= TweetLimit
     /\ tweet.sent # << >>
     /\ Attribution(tweet.sent) = Attribution(tweet.tweet_text)

\* The file holds the entry that self.posted_videos has under key k.
OnDisk(k) ==
  /\ disk.ok
  /\ k \in DOMAIN disk.data
  /\ disk.data[k] = posted_videos[k]

\* An entry recorded in the current run is not in the file although the save
\* that followed its recording is over: that save failed.
SaveFailedInRun ==
  /\ pc \notin {"down", "idle"} \cup SavePcs
  /\ \E k \in DOMAIN posted_videos :
       posted_videos[k].posted_at = run /\ ~OnDisk(k)

\* C12 (ledger write failure is fatal): once a save of the ledger has failed
\* in a run, no item is fetched or published in the rest of that run.
C12_WriteFailureIsFatal ==
  SaveFailedInRun => ext.op \notin FetchOps \cup PublishOps

\* The ledger file is a valid document holding an entry that the running
\* process does not have in self.posted_videos: its _load_posted_videos failed
\* and returned {}.
LoadFailed ==
  /\ pc # "down"
  /\ disk.ok
  /\ \E k \in DOMAIN disk.data : k \notin DOMAIN posted_videos

\* C13 (ledger read failure is fatal): a process whose load of an existing
\* ledger file failed fetches and publishes no item, and does not overwrite
\* the file.
C13_ReadFailureIsFatal ==
  /\ [](LoadFailed => ext.op \notin FetchOps \cup PublishOps)
  /\ [][LoadFailed => disk' = disk]_vars

TgPcs == {"tg_begin", "tg_auth", "tg_code", "tg_list"}

\* C14 (authorization pause): when a channel finds the session unauthorized
\* and has requested the code, nothing more is done for that channel and the
\* run goes on with the next configured source (it ends only if the channel
\* was the last one); the channels are reached only after every subreddit has
\* had its turn, and in a run with an unauthorized session the sources are
\* taken one after the other, none skipped.
C14_AuthorizationPause ==
  /\ [][ (pc = "tg_code" /\ pc' # "down") =>
            /\ ext'.op = "send_code_request"
            /\ IF srcIdx < Len(Sources(script))
               THEN srcIdx' = srcIdx + 1 /\ pc' = "tg_begin"
               ELSE pc' = "tg_done" ]_vars
  /\ [](pc \in TgPcs => srcIdx > Len(Subreddits))
  /\ [][ (~tgAuthorized /\ srcIdx >= 1 /\ pc' # "down") =>
            \/ srcIdx' = srcIdx
            \/ srcIdx' = srcIdx + 1
            \/ srcIdx = Len(Sources(script)) /\ pc' \in {"tg_done", "idle"} ]_vars

\* The first of two channels has found the session unauthorized and requested
\* the code, and the second channel is begun.
C14_Witness ==
  /\ ext.op = "send_code_request"
  /\ ~tgAuthorized
  /\ srcIdx = 2
  /\ Len(Sources(script)) = 2
  /\ pc = "tg_begin"

\* C15 (distinct authorization-required outcome): what
\* process_telegram_channel returns to its caller after it found the session
\* unauthorized and requested the code differs from what it returns on normal
\* completion and from what it returns after a caught error, and it carries
\* the phone the code was sent to.
C15_DistinctAuthRequiredOutcome ==
  ext.op = "send_code_request" =>
     /\ tgReturn # NotReturned
     /\ tgReturn # ReturnOnCompletion
     /\ tgReturn # ReturnOnError
     /\ "phone" \in DOMAIN tgReturn

\* C16 (pacing): the first external call made for an item (its fetch) is
\* never made while a fetch or publish call of an earlier item of the same
\* source has been made and no pacing delay has been taken since.
C16_Pacing ==
  [][ (pc = "download" /\ ext'.op \in FetchOps) => ~calledSincePace ]_vars

\* C17 (persist before next item): when the loop leaves an item whose publish
\* succeeded for at least one destination, to go on to the next item, the
\* ledger file holds the entry recorded for the item.
C17_PersistBeforeNextItem ==
  [][ (pc = "pace" /\ pc' = "next" /\ SomeSucceeded) =>
         OnDisk(Key(CurItem)) ]_vars

\* Every item a source of some deployment yields.
ItemUniverse ==
  UNION { Range(Listing(s)) : s \in {"sub1", "sub2", "sub3", "chan1", "chan2"} }

\* The publish of item it has returned success for some account.
PublishSucceeded(it) ==
  /\ pc \in MidItemPcs
  /\ CurItem = it
  /\ SomeSucceeded

\* When the loop reaches a video that was never recorded, it goes on to fetch
\* it.
NeverExcluded ==
  [][ (HasItem /\ VideoBearing(CurItem) /\ CurItem \notin recorded /\ pc' # "down") =>
         pc' = "download" /\ itemIdx' = itemIdx ]_vars

\* An item whose fetch and publish succeeded is recorded.
SuccessIsRecorded ==
  \A it \in ItemUniverse : PublishSucceeded(it) ~> (it \in recorded)

\* C18 (at-least-once): a video that was never recorded is attempted every
\* time its source yields it, whatever happened in the earlier runs; and once
\* its fetch has succeeded and its publish has succeeded for some destination
\* it is eventually recorded.  (Stated of the orderly runs of a process that
\* keeps running.)
C18_AtLeastOnce == NeverExcluded /\ SuccessIsRecorded

\* The identity of a content item: source kind, source identifier, item id.
Identity(it) == << it.kind, it.src, it.id >>

\* C19 (identity uniqueness of ledger keys): two items of the configured
\* sources with different identities have different ledger keys; and an item
\* is passed over as already posted only if an entry was recorded for that
\* very item.
C19_KeyUniqueness ==
  /\ [](\A i1, i2 \in AllItems :
          Identity(i1) # Identity(i2) => Key(i1) # Key(i2))
  /\ [][ (HasItem /\ AlreadyPosted(posted_videos, Key(CurItem)) /\ pc' # "down") =>
            CurItem \in recorded ]_vars

\* process_subreddit has exhausted the listing and is about to log its
\* counters.
EndOfForumSource ==
  /\ pc = "next"
  /\ Counting
  /\ itemIdx > Len(Listing(CurSource))

\* C20 (run statistics): at the end of processing a forum source the four
\* counters are the number of items the listing yielded, the number of those
\* classified as video, the number whose media was fetched and the number of
\* items published (recorded with at least one succeeding destination).
C20_RunStatistics ==
  EndOfForumSource =>
     /\ tally.seen = Len(Listing(CurSource))
     /\ stats.posts_processed = tally.seen
     /\ stats.videos_found = tally.video
     /\ stats.videos_downloaded = tally.fetched
     /\ stats.videos_posted = tally.published

\* The calls that poll a source, fetch an item or publish one.
PipelineOps == {"get_messages"} \cup FetchOps \cup PublishOps

\* C21 (CLI exit code): when the constructor fails (config.json missing or
\* not valid JSON, or the forum client cannot be created) main() returns 1
\* and no run was started, no source polled, nothing fetched and nothing
\* published by that invocation; with --run-once, main() returns 0 once the
\* run has completed, and it runs once only.
C21_ExitCode ==
  /\ cli.init \in InitOutcomes \ {"ok"} =>
        /\ cli.returned
        /\ cli.code = ExitError
        /\ pc = "down"
        /\ run = 0
        /\ ext.op \notin PipelineOps
        /\ posted = {}
        /\ recorded = {}
  /\ cli.args.run_once => run <= 1
  /\ cli.args.run_once /\ cli.returned /\ run > 0 => cli.code = ExitOk
  /\ cli.args.run_once /\ cli.returned /\ cli.code = ExitOk /\ ~cli.args.setup =>
        run = 1 /\ cli.init = "ok"

\* The constructor failed on a missing config.json and main() has returned.
C21_Witness ==
  /\ cli.init = "config_missing"
  /\ cli.returned
  /\ cli.code = ExitError

\* main() --run-once has returned 0 after a run that published something.
C21_WitnessRunOnce ==
  /\ cli.args.run_once
  /\ cli.returned
  /\ cli.code = ExitOk
  /\ posted # {}

\* The entries of self.posted_videos that the current run has set.
SetInRun ==
  { k \in DOMAIN posted_videos :
      k \notin DOMAIN runStart \/ posted_videos[k] # runStart[k] }

\* C22 (per-item phase order): a publish call is made for an item only once
\* its fetch has returned a file; while the item is being fetched or
\* published no entry has been set for it; its entry is set only after the
\* publish to every configured account has been attempted once and has
\* returned, at least one of them with success; and every entry set during a
\* run is dated by that run, lists an account and belongs to an item that
\* went through the record step.
C22_PhaseOrder ==
  /\ ext.op \in PublishOps => dlResult = "ok" /\ ext.item = CurItem
  /\ pc \in PublishPcs \cup {"record"} => dlResult = "ok"
  /\ pc \in {"download"} \cup PublishPcs => Key(CurItem) \notin SetInRun
  /\ pc \in {"save_open", "save_write"} =>
        /\ dlResult = "ok"
        /\ \A a \in AcctSet : attempts[a] = 1 /\ results[a] \in {"ok", "fail"}
        /\ \E a \in AcctSet : results[a] = "ok"
        /\ Key(CurItem) \in SetInRun
        /\ posted_videos[Key(CurItem)].posted_to # << >>
  /\ pc \notin {"down", "idle"} =>
        \A k \in SetInRun :
          /\ posted_videos[k].posted_at = run
          /\ posted_videos[k].posted_to # << >>
          /\ \E it \in recorded : Key(it) = k

\* An entry has just been set for an item after one account failed and the
\* other succeeded.
C22_Witness ==
  /\ pc = "save_open"
  /\ Key(CurItem) \in SetInRun
  /\ results["acctA"] = "fail"
  /\ results["acctB"] = "ok"

\* The configured sources in the order the claim gives: every forum source,
\* then every channel source.
ForumsThenChannels == Subreddits \o Channels

\* C23 (sequential draining): within a run the sources are taken one after
\* the other, the forum sources in configured order and then the channel
\* sources; a source is left only when its listing is exhausted (or, for a
\* channel, when the channel ended before yielding its messages); the items
\* of a source are taken one at a time in listing order, and every fetch or
\* publish call is about the item at the current position.
C23_SequentialDraining ==
  [][ /\ (pc = "idle" /\ pc' \notin {"idle", "down"}) =>
            srcIdx' = (IF Len(Sources(script)) > 0 THEN 1 ELSE 0)
      /\ (srcIdx' # 0 /\ pc' # "down") =>
            /\ srcIdx' <= Len(ForumsThenChannels)
            /\ Sources(script)[srcIdx'] = ForumsThenChannels[srcIdx']
      /\ (srcIdx # 0 /\ srcIdx' # srcIdx /\ pc' # "down") =>
            /\ srcIdx' = (IF srcIdx < Len(Sources(script)) THEN srcIdx + 1 ELSE 0)
            /\ \/ pc = "next" /\ itemIdx > Len(Listing(CurSource))
               \/ ~IsForum(srcIdx) /\ pc \in TgPcs
      /\ (srcIdx # 0 /\ srcIdx' = srcIdx /\ itemIdx' # itemIdx) =>
            /\ itemIdx' = itemIdx + 1
            /\ pc \in {"next", "download", "pace", "tg_list"}
            /\ pc' = "next"
      /\ ext'.op \in FetchOps \cup PublishOps =>
            /\ srcIdx' = srcIdx
            /\ itemIdx <= Len(Listing(CurSource))
            /\ ext'.item = CurItem
    ]_vars

\* The first message of the channel is being fetched after the subreddit
\* before it was drained to its last post.
C23_Witness ==
  /\ config = "one_each"
  /\ script = "social"
  /\ srcIdx = 2
  /\ itemIdx = 1
  /\ pc = "download"
  /\ \E a \in AcctSet : <<Listing("sub1")[1], a>> \in posted

\* The post is on one of the external long-form video domains.
OnExternalVideoDomain(p) ==
  \E d \in ExternalVideoDomains : StartsWith(p.domain, d)

\* The post links to the image host with an animated-format extension.
AnimatedOnImageHost(p) ==
  /\ Contains(p.url, "imgur.com")
  /\ Contains(p.url, ".gifv") \/ Contains(p.url, ".mp4")

\* C25 (URL resolution priority): once download_video has returned for a
\* post, (1) a post flagged as video by the forum, with media metadata, was
\* resolved to the fallback URL of the metadata; (2) otherwise a post on an
\* external long-form video domain was resolved to nothing, with no lookup
\* and no download request; (3) otherwise a post whose URL names the
\* short-clip host was resolved to the mp4 URL the lookup API returned;
\* (4) otherwise a post that links to the image host with the animated
\* extension was resolved to its own URL with that extension rewritten to
\* .mp4, with no lookup; (5) anything else was resolved to nothing.  A post
\* resolved to nothing was not requested and download_video returned None
\* for it, so that it is not published.
C25_ResolutionPriority ==
  download.returned \in {"ok", "fail"} /\ download.lookup # "raises" =>
    LET p == submission
        d == download
    IN  /\ p.is_video /\ p.media # NoMedia =>
              d.video_url = FallbackUrl(p.id) /\ d.lookup = "not called"
        /\ ~p.is_video /\ OnExternalVideoDomain(p) =>
              /\ d.video_url = NotFound
              /\ d.lookup = "not called"
        /\ (/\ ~p.is_video /\ ~OnExternalVideoDomain(p)
            /\ Contains(p.url, "gfycat.com") /\ d.lookup = "200") =>
              d.video_url = Mp4Url(p.url)
        /\ (/\ ~p.is_video /\ ~OnExternalVideoDomain(p)
            /\ ~Contains(p.url, "gfycat.com") /\ AnimatedOnImageHost(p)) =>
              /\ Len(d.video_url) = Len(p.url)
              /\ \A n \in 1..Len(p.url) :
                   d.video_url[n] = (IF p.url[n] = ".gifv" THEN ".mp4"
                                     ELSE p.url[n])
              /\ d.lookup = "not called"
        /\ (/\ ~p.is_video /\ ~OnExternalVideoDomain(p)
            /\ ~Contains(p.url, "gfycat.com") /\ ~AnimatedOnImageHost(p)) =>
              d.video_url = NotFound
        /\ d.video_url = NotFound =>
              d.http = "not called" /\ d.returned = "fail"
        /\ d.returned = "ok" => d.video_url # NotFound /\ d.http = "200"

\* An unflagged link to a .gifv on the image host was resolved to the .mp4
\* URL, and its download went through.
C25_Witness ==
  /\ ~submission.is_video
  /\ submission.url = ImgurGifv("x1")
  /\ download.video_url = <<"https://", "i.", "imgur.com", "/", "x1", ".mp4">>
  /\ download.returned = "ok"

\* A post on an external video domain whose URL also names the short-clip
\* host was resolved to nothing.
C25_WitnessPriority ==
  /\ ~submission.is_video
  /\ OnExternalVideoDomain(submission)
  /\ Contains(submission.url, "gfycat.com")
  /\ download.returned = "fail"
  /\ download.video_url = NotFound

\* The forum item is flagged as video by the forum, or its URL contains one
\* of the allowlisted hosting domains.
FlaggedOrAllowlisted(it) ==
  \/ it.is_video
  \/ Contains(it.url, "gfycat.com")
  \/ Contains(it.url, "imgur.com")
  \/ Contains(it.url, "v.redd.it")

\* C24 (forum classification filter): no step makes a forum item that is
\* neither flagged as video nor has a URL containing an allowlisted domain
\* the item of a fetch or publish call, the item being fetched, published or
\* recorded, an item with a post created or an item with an entry; and when the
\* forum loop yields an item that is flagged or allowlisted and whose key is
\* not in the ledger, the next step of the loop takes that item to the fetch.
C24_ForumFilter ==
  [][ /\ \A it \in AllItems :
           (it.kind = "forum" /\ ~FlaggedOrAllowlisted(it)) =>
             /\ ~(ext'.op \in FetchOps \cup PublishOps /\ ext'.item = it)
             /\ it \notin recorded'
             /\ \A a \in AcctSet : <<it, a>> \notin posted'
             /\ pc' \in MidItemPcs =>
                  Listing(Sources(script)[srcIdx'])[itemIdx'] # it
      /\ (/\ HasItem /\ IsForum(srcIdx)
          /\ FlaggedOrAllowlisted(CurItem)
          /\ Key(CurItem) \notin DOMAIN posted_videos
          /\ pc' # "down") =>
            /\ pc' = "download"
            /\ srcIdx' = srcIdx /\ itemIdx' = itemIdx ]_vars

\* The link to the image host, which the forum does not flag as video, is
\* being fetched.
C24_Witness ==
  /\ config = "busy_forum"
  /\ pc = "download"
  /\ ~CurItem.is_video
  /\ Contains(CurItem.url, "imgur.com")

\* The article link of sub1 has been passed over and the run has gone on.
C24_WitnessFiltered ==
  /\ config = "one_each"
  /\ srcIdx = 1
  /\ itemIdx = 3
  /\ pc = "next"

\* C26 (fetch errors are per-item): when the fetch of an item has just
\* failed (error status, exception, or no URL), the process is still running
\* the loop of the same source, which has not returned, and the loop stands
\* at the item that follows the failed one in the listing, with nothing
\* published and nothing recorded for the failed fetch.
C26_FetchErrorsPerItem ==
  dlResult = "fail" =>
    /\ pc = "next"
    /\ srcIdx \in 1..Len(Sources(script))
    /\ tgReturn = NotReturned
    /\ itemIdx \in 2..(Len(Listing(CurSource)) + 1)
    /\ ext.op \in FetchOps =>
          /\ ext.res = "fail"
          /\ ext.item = Listing(CurSource)[itemIdx - 1]
    /\ posted_accounts = << >>
    /\ attempts = NoAttempts

\* The download of the first video of sub3 has just failed and the second
\* post of the listing is the next item of the loop.
C26_Witness ==
  /\ config = "busy_forum"
  /\ dlResult = "fail"
  /\ ext.op = "download"
  /\ ext.item = Listing("sub3")[1]
  /\ HasItem
  /\ CurItem = Listing("sub3")[2]

\* C27 (session release): whenever main() is outside the --telegram-code
\* block and outside a run (before the run, after it, or returned), the
\* channel session is disconnected: the run's channel processing and every
\* exit path of the sign-in block have released it.
C27_SessionRelease ==
  (pc = "idle" \/ cli.returned) => ~tgConnected

\* Ledgers L and M have the same entries under every key other than k.
SameButFor(L, M, k) ==
  /\ DOMAIN L \ {k} = DOMAIN M \ {k}
  /\ \A x \in DOMAIN L \ {k} : L[x] = M[x]

\* The step sets the entry of self.posted_videos under the current item's key
\* and leaves every other entry of self.posted_videos as it was.
FramedInMemory ==
  /\ Key(CurItem) \in DOMAIN posted_videos'
  /\ posted_videos'[Key(CurItem)] = Entry(CurItem, run, posted_accounts)
  /\ SameButFor(posted_videos, posted_videos', Key(CurItem))

\* C28 (record is a framed upsert): the step that records an item sets the
\* entry under the item's key and leaves every other entry in memory
\* unchanged; and the save that ends the recording leaves the file with, under
\* every other key, what the file held when the item was recorded (the file
\* is not touched between the recording and its save, and the save writes
\* self.posted_videos).
C28_FramedUpsert ==
  [][ pc' = "save_open" =>
        /\ FramedInMemory
        /\ disk' = disk
        /\ SameButFor(disk.data, posted_videos', Key(CurItem)) ]_vars

\* Number of characters of text t that came from part p.
RECURSIVE PartLen(_, _)
PartLen(t, p) ==
  IF t = << >> THEN 0
  ELSE (IF Head(t).part = p THEN Head(t).len ELSE 0) + PartLen(Tail(t), p)

\* Text t has the "..." right after its body characters.
DotsFollowBody(t) ==
  \E n \in 1..(Len(t) - 1) :
    /\ t[n].part = "body"
    /\ t[n + 1] = [part |-> "dots", len |-> DotsLen]

\* C29 (body excerpt bound): the text composed for a forum post holds body
\* characters only when include_text_content is on and the body is not
\* empty; it then holds the whole stripped body when that has at most 150
\* characters, and otherwise its first 150 characters followed by "...";
\* this is so in the string before its 280-character slice, and what is sent
\* is the slice of that string.
C29_BodyExcerptBound ==
  tweet.by = "post_to_twitter" =>
    LET t == tweet.tweet_text
        stripped == post.selftext.core
        included == /\ script = "social"
                    /\ post.include_text_content
                    /\ post.selftext.pad + post.selftext.core > 0
    IN  /\ ~included => PartLen(t, "body") = 0 /\ PartLen(t, "dots") = 0
        /\ (included /\ stripped <= 150) =>
              PartLen(t, "body") = stripped /\ PartLen(t, "dots") = 0
        /\ (included /\ stripped > 150) =>
              /\ PartLen(t, "body") = 150
              /\ PartLen(t, "dots") = 3
              /\ DotsFollowBody(t)
        /\ tweet.sent = Take(t, TweetLimit)
        /\ PartLen(tweet.sent, "body") <= 150

\* A body of 400 characters was cut to 150 and "...", and the 280-character
\* slice then cut into the excerpt.
C29_Witness ==
  /\ tweet.by = "post_to_twitter"
  /\ post.selftext.core = 400
  /\ PartLen(tweet.tweet_text, "body") = 150
  /\ DotsFollowBody(tweet.tweet_text)
  /\ PartLen(tweet.sent, "body") \in 1..149

\* The message has no media, or none of the attributes of its attachment is
\* a video attribute.
NoVideoAttachment(m) ==
  \/ m.media = NoAttachment
  \/ \A n \in 1..Len(m.media) : m.media[n] # "DocumentAttributeVideo"

\* C30 (channel classification filter): a channel message without media, or
\* whose attachment has no video-capable document attribute, is never the
\* item of a download or publish call, never the item being published or
\* recorded, never has a post created and never has an entry in the ledger
\* or in the file.
C30_ChannelFilter ==
  \A m \in AllItems :
    (m.kind = "channel" /\ NoVideoAttachment(m)) =>
      /\ ~Touched(m)
      /\ pc \in MidItemPcs \ {"download"} => CurItem # m
      /\ m \notin recorded
      /\ \A a \in AcctSet : <<m, a>> \notin posted
      /\ Key(m) \notin DOMAIN posted_videos
      /\ Key(m) \notin DOMAIN disk.data

\* download_telegram_video has just returned None, without a download, for
\* the second message of chan2, whose attachment is a file that is not a
\* video.
C30_Witness ==
  /\ config = "two_channels"
  /\ srcIdx = 2
  /\ itemIdx = 3
  /\ pc = "next"
  /\ dlResult = "fail"
  /\ ext = NoCall

\* C31 (messages are listed only on an authorized session): whenever
\* get_messages has just been called, for whichever channel of the run, the
\* session is authorized; in particular no channel calls it after an earlier
\* channel of the run found the session unauthorized.
C31_ListOnlyWhenAuthorized ==
  ext.op = "get_messages" => tgAuthorized /\ ext.res = "ok"

\* C32 (the ledger file is append-only across runs): when no save fails and
\* no process is stopped in mid-item, every item recorded was written to the
\* file by the save that followed its recording; so, outside a save, the
\* key of every item ever recorded is in the file, whatever runs and
\* restarts came after.
C32_AppendOnly ==
  pc \notin SavePcs =>
    \A it \in recorded : disk.ok /\ Key(it) \in DOMAIN disk.data

\* The entry lists at least one account, only configured accounts, and each
\* of them once.
ListsAccounts(e) ==
  /\ e.posted_to # << >>
  /\ \A n \in 1..Len(e.posted_to) : e.posted_to[n] \in AcctSet
  /\ \A n, m \in 1..Len(e.posted_to) :
       e.posted_to[n] = e.posted_to[m] => n = m

\* C33 (posted_to is never empty): every entry of self.posted_videos, and
\* every entry of the file when it holds a complete document, has a
\* posted_to that is not empty and names configured accounts only.
C33_PostedToNonEmpty ==
  /\ \A k \in DOMAIN posted_videos : ListsAccounts(posted_videos[k])
  /\ disk.ok => \A k \in DOMAIN disk.data : ListsAccounts(disk.data[k])

\* The file holds an entry that lists both accounts and one that lists the
\* second account only.
C33_Witness ==
  /\ disk.ok
  /\ \E k \in DOMAIN disk.data : disk.data[k].posted_to = <<"acctA", "acctB">>
  /\ \E k \in DOMAIN disk.data : disk.data[k].posted_to = <<"acctB">>

\* C35 (counter chain): while a forum source is processed,
\* videos_posted <= videos_downloaded <= videos_found <= posts_processed.
C35_CounterChain ==
  Counting =>
    /\ stats.videos_posted <= stats.videos_downloaded
    /\ stats.videos_downloaded <= stats.videos_found
    /\ stats.videos_found <= stats.posts_processed

\* The last step was the forum listing raising.
ListingRaised == ext.op = "hot" /\ ext.res = "error"

\* C34 (source isolation): when the listing of a forum source raises, the
\* run goes on with the source configured after it, at that source's
\* beginning: the next forum source if there is one, else the first channel
\* source; the run is over only if the source was the last one.  The step
\* changes neither the ledger nor the file nor the session.
C34_SourceIsolation ==
  [][ ListingRaised' =>
        /\ pc = "next"
        /\ IsForum(srcIdx)
        /\ IF srcIdx < Len(Sources(script))
           THEN /\ srcIdx' = srcIdx + 1
                /\ Sources(script)[srcIdx'] = ForumsThenChannels[srcIdx + 1]
                /\ pc' = IF IsForum(srcIdx') THEN "next" ELSE "tg_begin"
                /\ IsForum(srcIdx') => itemIdx' = 1
           ELSE /\ srcIdx' = 0
                /\ pc' \in {"idle", "tg_done"}
        /\ run' = run
        /\ UNCHANGED << posted_videos, disk, tgConnected, posted, recorded >>
    ]_vars

\* The listing of the subreddit has raised part-way, after its first post was
\* published and recorded, and the run is at the beginning of the channel.
C34_Witness ==
  /\ ListingRaised
  /\ script = "social"
  /\ config = "one_each"
  /\ srcIdx = 2
  /\ pc = "tg_begin"
  /\ \E it \in recorded : it.src = "sub1"

\* C36 (single supervised process): at most one child started by the GUI is
\* alive at any time, and is_running is false only when no started child is
\* alive.
C36_SingleChild ==
  /\ Cardinality(gui.alive) <= 1
  /\ ~gui.is_running => gui.alive = {}

\* The two ledgers have the same keys and the same posted_to under each.
SameLedger(L, M) ==
  /\ DOMAIN L = DOMAIN M
  /\ \A k \in DOMAIN L : L[k].posted_to = M[k].posted_to

\* C37 (the scripts agree on forum sources): started from the same ledger
\* on the same listing with the same fetch and publish outcomes, the two
\* process_subreddit have, after the same number of posts, attempted the
\* same fetches and publishes in the same order and hold the same ledger, in
\* memory and in the file.
C37_ScriptsAgree ==
  pair.reddit.idx = pair.social.idx =>
    /\ pair.reddit.calls = pair.social.calls
    /\ SameLedger(pair.reddit.posted_videos, pair.social.posted_videos)
    /\ SameLedger(pair.reddit.file, pair.social.file)

\* Both have drained the listing of sub3: the fetch of p3 failed; the
\* unflagged animation p4 was fetched and published, to the second account
\* only, and is in both ledgers.
C37_Witness ==
  /\ pair.posts = Listing("sub3")
  /\ pair.reddit.idx = 3
  /\ pair.social.idx = 3
  /\ pair.social.calls = <<  <<"download_video", "p3">>,
                              <<"download_video", "p4">>,
                              <<"post_to_twitter", "p4", "acctA">>,
                              <<"post_to_twitter", "p4", "acctB">> >>
  /\ DOMAIN pair.reddit.file = {"p4"}
  /\ pair.reddit.file["p4"].posted_to = <<"acctB">>


====
